---- MODULE Spec2Model ----
(***************************************************************************)
(* act_runner: the poll loop and its two-phase shutdown (internal/app/poll) *)
(* the per-task Runner (internal/app/run) and the streaming Reporter        *)
(* (internal/pkg/report), as state machines.                                *)
(*                                                                          *)
(* Spec          Poller + Runner: W workers, Poll, Shutdown, Runner.Run     *)
(* SpecReporter  one Reporter: Fire, Close, ReportLog, ReportState, daemon  *)
(***************************************************************************)
EXTENDS Integers, Sequences, FiniteSets, TLC

(* ------------------------------ bounds --------------------------------- *)

\* cfg.Runner.Capacity: the number of poll workers
Capacity == 2

\* how many tasks the coordinator hands out in one run of the model
MaxTasks == 2

\* the most steps a job has (ResetSteps(l), l <= MaxSteps)
MaxSteps == 2

\* the most rows run appends to the log of a task through Logf
MaxRows == 2

\* the most rows the executor's entries append to the log of a task
MaxFireRows == 1

\* the most UpdateLog requests sent for a task
MaxFlush == 3

Workers == 1..Capacity

\* task ids the coordinator may hand out (it may hand out the same id twice)
TaskIds == {1, 2}

NoTask == 0

VARIABLES
    \* ---- Poller (poller.go:23-36)
    pollingCtx,     \* TRUE once shutdownPolling() was called
    jobsCtx,        \* TRUE once shutdownJobs() was called
    done,           \* the done channel: [closed |-> BOOLEAN, closes |-> Nat]
    pollPc,         \* Poll(): "start" -> "wait" -> "closed"
    wpc,            \* per worker: position in poll()/Runner.Run
    fetched,        \* tasks handed out so far
    \* ---- Shutdown (poller.go:73-100)
    sdPc,           \* "idle" -> "select" -> "recv" -> "returned"
    sdCtx,          \* TRUE once the timeout context of Shutdown is done
    sdErr,          \* the value Shutdown returned: "none" | "nil" | "timeout"
    sdBusy,         \* a task was in flight when Shutdown was called
    sdTimedOutBusy, \* the timeout branch was taken while a task was executing
    \* ---- Runner (runner.go:92-121)
    runningTasks,   \* the sync.Map of live task ids
    wtask,          \* the task id each worker holds
    taskCtx,        \* per worker: the task context: "live", or why it is done:
                    \* "deadline" (timed out) or "hook" (cancel called by the Reporter)
    \* the record of a worker's current (else last) Run, reset with the next task
    outcome,        \* per worker: how the executor ended
    lastWords,      \* per worker: the argument handed to Reporter.Close
    closeCalls,     \* per worker: Reporter.Close calls of the Run
    runRet          \* per worker: what Runner.Run returned: "none" | "nil" | "dup"

VARIABLES
    \* ---- Reporter (reporter.go:24-43), one task
    closed,         \* r.closed
    rctx,           \* TRUE once r.ctx is done
    logOffset,      \* r.logOffset
    logRows,        \* r.logRows: the contents of the buffered rows
    state,          \* r.state: startedAt, stoppedAt, result, steps
    clientM,        \* r.clientM: "free" or the caller that holds it
    rpc,            \* the request in flight (clientM allows one at a time)
    pc,             \* position of the callers "main" (run, then Close) and "daemon"
    \* ---- what the coordinator has seen and answered
    sentTimes,      \* per absolute row index: in how many UpdateLog requests
                    \* it was submitted (counted up to 2)
    flushes,        \* UpdateLog requests sent so far
    maxAck,         \* the largest ack_index received so far (-1: none)
    closeArg,       \* the lastWords argument of Close
    closeRet,       \* what Close returned: "none" | "nil" | "err"
    logRet,         \* what the last ReportLog returned: "none" while it runs,
                    \* "nil", "err" (UpdateLog failed), "lost", "notall", "panic"
    lastAck,        \* resp.Msg.AckIndex of that call (NoAck: no response)
    attempts        \* Close: the attempts retry.Do has started

reporterVars == <<closed, rctx, logOffset, logRows, state, clientM, rpc, pc,
                  sentTimes, flushes, maxAck, closeArg, closeRet, logRet, lastAck,
                  attempts>>

VARIABLES
    \* ---- Reporter, the log line parser (reporter.go:34-42, 368-434)
    oldnew,              \* r.oldnew: the masked values, in the order they were added
                         \* (each is replaced by "***")
    stopCommandEndToken, \* r.stopCommandEndToken, <<>> when no section is open
    debugOutputEnabled,  \* r.debugOutputEnabled
    stepDebug,           \* task.Secrets["ACTIONS_STEP_DEBUG"], "" when absent
    parsed               \* the last line parseLogRow took and whether it gave a row

parserVars == <<oldnew, stopCommandEndToken, debugOutputEnabled, stepDebug, parsed>>

VARIABLES
    \* ---- what the executor has fired (history, not fields of the Reporter)
    rawFired,   \* per step: the raw_output entries fired for it that gave a row
    rowStep     \* per row ever appended, by absolute index: the step whose
                \* raw_output entry gave it, -1 for any other row

outputVars == <<rawFired, rowStep>>

VARIABLES
    \* ---- Reporter, the job's outputs (reporter.go:38, 202-220, 300-335)
    outputs,    \* r.outputs: per key "absent", the value (pending), or "sent"
                \* (the struct{}{} that replaces an acknowledged value)
    setOut,     \* SetOutputs: the entry of the map the loop is at
    updReq,     \* ReportState: the Outputs of the UpdateTask request in flight
    sentVals,   \* history: the <<key, value>> pairs put into any request
    listed,     \* history: the keys the coordinator listed in SentOutputs
    rejected    \* history: the <<key, value>> pairs SetOutputs found too long

kvVars == <<outputs, setOut, updReq, sentVals, listed, rejected>>

VARIABLES
    \* ---- Poller, the tasks version (poller.go:27, 133-166)
    tasksVersion,   \* p.tasksVersion
    fpc,            \* per worker: position in fetchTask
    fv,             \* per worker: v, the version loaded for the request
    fresp,          \* per worker: the response at hand
    returned        \* history: the versions the coordinator has returned

fetchVars == <<tasksVersion, fpc, fv, fresp, returned>>

VARIABLES
    \* ---- Runner.run, one task's job (runner.go:116-233, workflow.go:17-54)
    runTask,    \* the task at hand: its workflow payload and its needs map
    generated,  \* what generateWorkflow returned for it
    runAt,      \* where run is: "start", "failed" (generateWorkflow gave an
                \* error), "planned", "executing", "returned" or "errored"
                \* (the executor gave an error)
    \* ---- Runner (runner.go:39, 171, 195), shared by the tasks
    envs,       \* r.envs["ACTIONS_RUNTIME_TOKEN"], "" while absent
    \* ---- one Reporter, its cancel hook (reporter.go:320-322)
    hookCalls,  \* the calls of r.cancel() by ReportState
    cancelResps, \* history: the UpdateTask responses whose state had result
                \* Cancelled
    stateErr    \* what the last ReportState returned: "none", "nil", "rpc"
                \* (UpdateTask failed) or "pending" (outputs not sent)

jobVars == <<runTask, generated, runAt, envs, hookCalls, cancelResps, stateErr>>

pollerVars == <<pollingCtx, jobsCtx, done, pollPc, wpc, fetched>>
shutdownVars == <<sdPc, sdCtx, sdErr, sdBusy, sdTimedOutBusy>>
runnerVars == <<runningTasks, wtask, taskCtx, outcome, lastWords, closeCalls,
                runRet>>

vars == <<pollerVars, shutdownVars, runnerVars, reporterVars, parserVars, outputVars,
          kvVars, fetchVars, jobVars>>

(* ------------------------------ contexts ------------------------------- *)

\* the positions of a worker inside Runner.Run past the duplicate check, and
\* those in which it holds a task context and a Reporter
InRun == {"store", "exec", "close", "flush"}
Executing == {"exec", "close", "flush"}

TaskCtxDone_Polling(w) ==
    pollingCtx \/ jobsCtx \/ taskCtx[w] # "live" \/ wpc[w] \notin InRun

\* ctx, cancel := context.WithTimeout(ctx, r.cfg.Runner.Timeout): a child of the
\* jobs context, done when its parent is, when the deadline passes, or when
\* cancel is called (by the Reporter's hook, or deferred when Run returns)
TaskCtxDone(w) == jobsCtx \/ taskCtx[w] # "live" \/ wpc[w] \notin InRun

\* report.NewReporter(ctx, cancel, ...): the Reporter keeps the task context
ReporterCtxDone(w) == TaskCtxDone(w)

\* a receive on a channel nothing ever sends on completes only once the
\* channel is closed, and then reports ok = false
RecvReady(ch) == ch.closed
RecvOk(ch) == ~ch.closed

(* ------------------------------- Poller -------------------------------- *)

InitPoller ==
    /\ pollingCtx = FALSE
    /\ jobsCtx = FALSE
    /\ done = [closed |-> FALSE, closes |-> 0]
    /\ pollPc = "start"
    /\ wpc = [w \in Workers |-> "idle"]
    /\ fetched = 0
    /\ sdPc = "idle"
    /\ sdCtx = FALSE
    /\ sdErr = "none"
    /\ sdBusy = FALSE
    /\ sdTimedOutBusy = FALSE

InitRunner ==
    /\ runningTasks = {}
    /\ wtask = [w \in Workers |-> NoTask]
    /\ taskCtx = [w \in Workers |-> "live"]
    /\ outcome = [w \in Workers |-> "none"]
    /\ lastWords = [w \in Workers |-> ""]
    /\ closeCalls = [w \in Workers |-> 0]
    /\ runRet = [w \in Workers |-> "none"]

\* wg.Wait(): every worker has called wg.Done()
WgDone_Any == \E w \in Workers : wpc[w] = "exited"
WgDone == \A w \in Workers : wpc[w] = "exited"

\* Poll: wg.Add(1); go p.poll(wg, limiter) for each of the Capacity workers
PollStart ==
    /\ UNCHANGED <<reporterVars, parserVars, outputVars, kvVars, fetchVars, jobVars>>
    /\ pollPc = "start"
    /\ pollPc' = "wait"
    /\ wpc' = [w \in Workers |-> "limiter"]
    /\ UNCHANGED <<pollingCtx, jobsCtx, done, fetched, shutdownVars, runnerVars>>

\* Poll: wg.Wait(); close(p.done)
PollClose ==
    /\ UNCHANGED <<reporterVars, parserVars, outputVars, kvVars, fetchVars, jobVars>>
    /\ pollPc = "wait"
    /\ WgDone
    /\ pollPc' = "closed"
    /\ done' = [closed |-> TRUE, closes |-> done.closes + 1]
    /\ UNCHANGED <<pollingCtx, jobsCtx, wpc, fetched, shutdownVars, runnerVars>>

\* poll: limiter.Wait(p.pollingCtx) fails once the polling context is
\* cancelled, and the worker returns (wg.Done)
LimiterWait(w) ==
    /\ UNCHANGED <<reporterVars, parserVars, outputVars, kvVars, fetchVars, jobVars>>
    /\ wpc[w] = "limiter"
    /\ wpc' = [wpc EXCEPT ![w] = IF pollingCtx THEN "exited" ELSE "fetch"]
    /\ UNCHANGED <<pollingCtx, jobsCtx, done, pollPc, fetched, shutdownVars, runnerVars>>

AfterNoTask_Return == "exited"

\* poll: if !ok { continue }
AfterNoTask == "limiter"

CanFetch_WhileRunning(w) == wpc[w] \in {"fetch", "exec"}

\* poll: the worker is at p.fetchTask: limiter.Wait has returned, and the
\* call of runTaskWithRecover for the task before, made in the loop itself
\* and not in a goroutine of its own, has returned
CanFetch(w) == wpc[w] = "fetch"

\* poll: task, ok := p.fetchTask(p.pollingCtx); if !ok { continue }.
\* A request on a cancelled context, an error, a deadline or an empty
\* response give no task; a task is handed to runTaskWithRecover.
FetchTask(w) ==
    /\ UNCHANGED <<reporterVars, parserVars, outputVars, kvVars, fetchVars, jobVars>>
    /\ CanFetch(w)
    /\ \E t \in TaskIds \cup {NoTask} :
         LET got == IF pollingCtx \/ fetched >= MaxTasks THEN NoTask ELSE t IN
         IF got = NoTask
         THEN /\ wpc' = [wpc EXCEPT ![w] = AfterNoTask]
              /\ UNCHANGED <<wtask, fetched, outcome, lastWords, closeCalls, runRet>>
         ELSE /\ wpc' = [wpc EXCEPT ![w] = "load"]
              /\ wtask' = [wtask EXCEPT ![w] = got]
              /\ fetched' = fetched + 1
              /\ outcome' = [outcome EXCEPT ![w] = "none"]
              /\ lastWords' = [lastWords EXCEPT ![w] = ""]
              /\ closeCalls' = [closeCalls EXCEPT ![w] = 0]
              /\ runRet' = [runRet EXCEPT ![w] = "none"]
    /\ UNCHANGED <<pollingCtx, jobsCtx, done, pollPc, shutdownVars>>
    /\ UNCHANGED <<runningTasks, taskCtx>>

(* ------------------------------ Shutdown ------------------------------- *)

\* Shutdown: p.shutdownPolling(), then the select
ShutdownCall ==
    /\ UNCHANGED <<reporterVars, parserVars, outputVars, kvVars, fetchVars, jobVars>>
    /\ sdPc = "idle"
    /\ pollingCtx' = TRUE
    /\ sdPc' = "select"
    /\ sdBusy' = \E w \in Workers : wpc[w] \in InRun
    /\ UNCHANGED <<jobsCtx, done, pollPc, wpc, fetched, sdCtx, sdErr,
                   sdTimedOutBusy, runnerVars>>

\* the timeout of the context handed to Shutdown fires
ShutdownTimeout ==
    /\ UNCHANGED <<reporterVars, parserVars, outputVars, kvVars, fetchVars, jobVars>>
    /\ sdPc = "select"
    /\ ~sdCtx
    /\ sdCtx' = TRUE
    /\ UNCHANGED <<pollerVars, sdPc, sdErr, sdBusy, sdTimedOutBusy, runnerVars>>

\* case <-p.done: return nil
ShutdownSelectDone ==
    /\ UNCHANGED <<reporterVars, parserVars, outputVars, kvVars, fetchVars, jobVars>>
    /\ sdPc = "select"
    /\ RecvReady(done)
    /\ sdErr' = "nil"
    /\ sdPc' = "returned"
    /\ UNCHANGED <<pollerVars, sdCtx, sdBusy, sdTimedOutBusy, runnerVars>>

\* case <-ctx.Done():
ShutdownSelectTimeout ==
    /\ UNCHANGED <<reporterVars, parserVars, outputVars, kvVars, fetchVars, jobVars>>
    /\ sdPc = "select"
    /\ sdCtx
    /\ sdPc' = "recv"
    /\ sdTimedOutBusy' = \E w \in Workers : wpc[w] \in Executing
    /\ UNCHANGED <<pollerVars, sdCtx, sdErr, sdBusy, runnerVars>>

\* _, ok := <-p.done; if !ok { return nil }; p.shutdownJobs();
\* _, _ = <-p.done; return ctx.Err()
ShutdownRecv ==
    /\ UNCHANGED <<reporterVars, parserVars, outputVars, kvVars, fetchVars, jobVars>>
    /\ sdPc \in {"recv", "wait"}
    /\ RecvReady(done)
    /\ IF sdPc = "recv"
       THEN IF RecvOk(done)
            THEN /\ jobsCtx' = TRUE
                 /\ sdPc' = "wait"
                 /\ sdErr' = sdErr
            ELSE /\ jobsCtx' = jobsCtx
                 /\ sdPc' = "returned"
                 /\ sdErr' = "nil"
       ELSE /\ jobsCtx' = jobsCtx
            /\ sdPc' = "returned"
            /\ sdErr' = "timeout"
    /\ UNCHANGED <<pollingCtx, done, pollPc, wpc, fetched, sdCtx, sdBusy,
                   sdTimedOutBusy, runnerVars>>

(* ------------------------------- Runner -------------------------------- *)

Outcomes == {"ok", "error", "panic"}

\* run: the error run returns: nil, the executor's error, or, through the
\* deferred recover, fmt.Errorf("panic: %v", r). "" stands for nil.
RunErr_PanicLost(o) == IF o = "error" THEN "exec error" ELSE ""
RunErr(o) ==
    CASE o = "ok" -> ""
      [] o = "error" -> "exec error"
      [] o = "panic" -> "panic: boom"

\* Run: if _, ok := r.runningTasks.Load(task.Id); ok { return error }; the
\* error is logged by runTaskWithRecover and poll loops
RunLoad(w) ==
    /\ UNCHANGED <<reporterVars, parserVars, outputVars, kvVars, fetchVars, jobVars>>
    /\ wpc[w] = "load"
    /\ IF wtask[w] \in runningTasks
       THEN /\ runRet' = [runRet EXCEPT ![w] = "dup"]
            /\ wpc' = [wpc EXCEPT ![w] = "limiter"]
            /\ wtask' = [wtask EXCEPT ![w] = NoTask]
       ELSE /\ wpc' = [wpc EXCEPT ![w] = "store"]
            /\ UNCHANGED <<runRet, wtask>>
    /\ UNCHANGED <<pollingCtx, jobsCtx, done, pollPc, fetched, shutdownVars>>
    /\ UNCHANGED <<runningTasks, taskCtx, outcome, lastWords, closeCalls>>

\* task.Context.Fields["gitea_runtime_token"], "" when the context has none,
\* and the token of the task, per task id
RuntimeTokens == <<"rt1", "">>
TaskTokens == <<"tok1", "tok2">>

\* run: giteaRuntimeToken, the task's token when the context has none
GiteaRuntimeToken(t) == IF RuntimeTokens[t] = "" THEN TaskTokens[t] ELSE RuntimeTokens[t]

\* Run: r.runningTasks.Store(task.Id, ...); the task context and the Reporter
\* are made, RunDaemon starts the heartbeat, and run writes the runtime token
\* to r.envs, hands r.envs to runner.New as the Env of its config and starts
\* the executor
RunStore(w) ==
    /\ UNCHANGED <<reporterVars, parserVars, outputVars, kvVars, fetchVars>>
    /\ UNCHANGED <<runTask, generated, runAt, hookCalls, cancelResps, stateErr>>
    /\ wpc[w] = "store"
    /\ runningTasks' = runningTasks \cup {wtask[w]}
    /\ envs' = GiteaRuntimeToken(wtask[w])
    /\ wpc' = [wpc EXCEPT ![w] = "exec"]
    /\ UNCHANGED <<pollingCtx, jobsCtx, done, pollPc, fetched, shutdownVars>>
    /\ UNCHANGED <<wtask, taskCtx, outcome, lastWords, closeCalls, runRet>>

\* the per-task deadline (cfg.Runner.Timeout) passes
DeadlineExpires(w) ==
    /\ UNCHANGED <<reporterVars, parserVars, outputVars, kvVars, fetchVars, jobVars>>
    /\ wpc[w] \in Executing
    /\ ~TaskCtxDone(w)
    /\ taskCtx' = [taskCtx EXCEPT ![w] = "deadline"]
    /\ UNCHANGED <<pollerVars, shutdownVars>>
    /\ UNCHANGED <<runningTasks, wtask, outcome, lastWords, closeCalls, runRet>>

\* a heartbeat's ReportState gets a state with result Cancelled: r.cancel()
CoordCancel(w) ==
    /\ UNCHANGED <<reporterVars, parserVars, outputVars, kvVars, fetchVars, jobVars>>
    /\ wpc[w] = "exec"
    /\ ~ReporterCtxDone(w)
    /\ taskCtx' = [taskCtx EXCEPT ![w] = "hook"]
    /\ UNCHANGED <<pollerVars, shutdownVars>>
    /\ UNCHANGED <<runningTasks, wtask, outcome, lastWords, closeCalls, runRet>>

\* run returns: the executor ended, failed or panicked
ExecutorEnds(w) ==
    /\ UNCHANGED <<reporterVars, parserVars, outputVars, kvVars, fetchVars, jobVars>>
    /\ wpc[w] = "exec"
    /\ \E o \in Outcomes : outcome' = [outcome EXCEPT ![w] = o]
    /\ wpc' = [wpc EXCEPT ![w] = "close"]
    /\ UNCHANGED <<pollingCtx, jobsCtx, done, pollPc, fetched, shutdownVars>>
    /\ UNCHANGED <<runningTasks, wtask, taskCtx, lastWords, closeCalls, runRet>>

\* Run's deferred function: lastWords from runErr, reporter.Close(lastWords)
CloseCall(w) ==
    /\ UNCHANGED <<reporterVars, parserVars, outputVars, kvVars, fetchVars, jobVars>>
    /\ wpc[w] = "close"
    /\ lastWords' = [lastWords EXCEPT ![w] = RunErr(outcome[w])]
    /\ closeCalls' = [closeCalls EXCEPT ![w] = @ + 1]
    /\ wpc' = [wpc EXCEPT ![w] = "flush"]
    /\ UNCHANGED <<pollingCtx, jobsCtx, done, pollPc, fetched, shutdownVars>>
    /\ UNCHANGED <<runningTasks, wtask, taskCtx, outcome, runRet>>

\* Close: one attempt of retry.Do(ReportLog(true); ReportState, r.ctx). On a
\* context that is done Close returns the context's error; otherwise the
\* attempt succeeds and Close returns, or it fails and is retried, or, the
\* attempts used up, Close returns the error. Run drops what Close returns
\* and returns nil; its deferred cancel() and runningTasks.Delete run, and
\* poll loops.
CloseFlush(w) ==
    /\ UNCHANGED <<reporterVars, parserVars, outputVars, kvVars, fetchVars, jobVars>>
    /\ wpc[w] = "flush"
    /\ \E retry \in BOOLEAN :
         IF retry /\ ~ReporterCtxDone(w)
         THEN UNCHANGED <<wpc, runRet, runningTasks, taskCtx, wtask>>
         ELSE /\ wpc' = [wpc EXCEPT ![w] = "limiter"]
              /\ runRet' = [runRet EXCEPT ![w] = "nil"]
              /\ runningTasks' = runningTasks \ {wtask[w]}
              /\ taskCtx' = [taskCtx EXCEPT ![w] = "live"]
              /\ wtask' = [wtask EXCEPT ![w] = NoTask]
    /\ UNCHANGED <<pollingCtx, jobsCtx, done, pollPc, fetched, shutdownVars>>
    /\ UNCHANGED <<outcome, lastWords, closeCalls>>

(* ------------------------------ Reporter ------------------------------- *)

\* runnerv1.Result
Results == {"unspecified", "success", "failure", "cancelled", "skipped"}

\* timestamps: nil, or set (entry.Time and time.Now() are one instant here)
NoTime == 0
Times == {1}

\* parseLogRow returns nil for a command line that is dropped
NoRow == "<nil>"

Callers == {"main", "daemon"}

\* parseResult: stringToResult knows these four strings
ParseOk(v) == v \in {"success", "failure", "skipped", "cancelled"}

\* ResetSteps: &runnerv1.StepState{Id: int64(i)}
NewStep ==
    [startedAt |-> NoTime, stoppedAt |-> NoTime, result |-> "unspecified",
     logIndex |-> 0, logLength |-> 0]

\* duringSteps
DuringSteps(steps) ==
    IF Len(steps) = 0 THEN FALSE
    ELSE IF steps[1].result = "unspecified" /\ steps[1].logLength = 0 THEN FALSE
    ELSE IF steps[Len(steps)].result # "unspecified" THEN FALSE
    ELSE TRUE

AppendIfNotNil(rows, row) == IF row # NoRow THEN Append(rows, row) ELSE rows

\* Fire, Close: an Unspecified step becomes Cancelled, or Skipped with a
\* skipped job
StopSteps_All(steps, forced) ==
    [i \in 1..Len(steps) |-> [steps[i] EXCEPT !.result = forced]]
StopSteps(steps, forced) ==
    [i \in 1..Len(steps) |->
        IF steps[i].result = "unspecified"
        THEN [steps[i] EXCEPT !.result = forced]
        ELSE steps[i]]

\* the log entries the executor fires: outside the Main stage only jobResult
\* is read, in the Main stage stepNumber, raw_output and stepResult. A field
\* that is absent (or of another type) is "absent", stepNumber -1; "bogus" is
\* a result string parseResult does not know. row is what parseLogRow makes
\* of the message.
OtherEntries ==
    [stage : {"Post"}, stepNumber : {-1}, rawOutput : {"absent"},
     stepResult : {"absent"},
     jobResult : {"absent", "success", "failure", "cancelled", "skipped", "bogus"},
     time : Times, row : {"out", NoRow}]

MainEntries ==
    [stage : {"Main"}, stepNumber : -1..MaxSteps,
     rawOutput : {"absent", "true", "false"},
     stepResult : {"absent", "success", "failure", "bogus"},
     jobResult : {"absent"},
     time : Times, row : {"out", NoRow}]

FireOther_KeepSteps(st, rows, e) ==
    LET st1 == IF e.jobResult # "absent" /\ ParseOk(e.jobResult)
               THEN [st EXCEPT !.result = e.jobResult, !.stoppedAt = e.time]
               ELSE st
    IN [state |-> st1,
        logRows |-> IF ~DuringSteps(st1.steps) THEN AppendIfNotNil(rows, e.row)
                    ELSE rows]

\* Fire, stage != "Main"
FireOther(st, rows, e) ==
    LET st1 == IF e.jobResult # "absent" /\ ParseOk(e.jobResult)
               THEN [st EXCEPT !.result = e.jobResult,
                               !.stoppedAt = e.time,
                               !.steps = StopSteps(st.steps,
                                    IF e.jobResult = "skipped" THEN "skipped"
                                    ELSE "cancelled")]
               ELSE st
    IN [state |-> st1,
        logRows |-> IF ~DuringSteps(st1.steps) THEN AppendIfNotNil(rows, e.row)
                    ELSE rows]

RawRow_Any(e) == e.rawOutput = "true"

\* Fire: raw_output is true and parseLogRow gave a row
RawRow(e) == e.rawOutput = "true" /\ e.row # NoRow

FirstIndex_Never(s, at) == s.logIndex

\* Fire: if step.LogLength == 0 { step.LogIndex = r.logOffset + len(r.logRows) }
FirstIndex(s, at) == IF s.logLength = 0 THEN at ELSE s.logIndex

\* Fire, stage = "Main"
FireMain(st, rows, off, e) ==
    IF ~(e.stepNumber >= 0 /\ Len(st.steps) > e.stepNumber)
    THEN [state |-> st,
          logRows |-> IF ~DuringSteps(st.steps) THEN AppendIfNotNil(rows, e.row)
                      ELSE rows]
    ELSE
      LET i == e.stepNumber + 1
          s0 == st.steps[i]
          s1 == IF s0.startedAt = NoTime THEN [s0 EXCEPT !.startedAt = e.time] ELSE s0
          raw == RawRow(e)
          s2 == IF raw
                THEN [s1 EXCEPT !.logIndex = FirstIndex(s1, off + Len(rows)),
                                !.logLength = @ + 1]
                ELSE s1
          rows2 == IF e.rawOutput # "absent"
                   THEN (IF raw THEN Append(rows, e.row) ELSE rows)
                   ELSE IF ~DuringSteps(st.steps) THEN AppendIfNotNil(rows, e.row)
                   ELSE rows
          s3 == IF e.stepResult # "absent" /\ ParseOk(e.stepResult)
                THEN [s2 EXCEPT !.logIndex = FirstIndex(s2, off + Len(rows2)),
                                !.result = e.stepResult,
                                !.stoppedAt = e.time]
                ELSE s2
      IN [state |-> [st EXCEPT !.steps[i] = s3], logRows |-> rows2]

\* Fire
FireResult(st, rows, off, e) ==
    LET st0 == IF st.startedAt = NoTime THEN [st EXCEPT !.startedAt = e.time] ELSE st
    IN IF e.stage # "Main" THEN FireOther(st0, rows, e)
       ELSE FireMain(st0, rows, off, e)

\* rows appended so far
TotalRows == logOffset + Len(logRows)

\* no response of UpdateLog at hand
NoAck == -2

NoRpc == [kind |-> "none", index |-> 0, n |-> 0, noMore |-> FALSE]

\* the entry is a raw_output entry for an existing step and the parser
\* made a row of it
OutputOf(e, steps) ==
    /\ e.stage = "Main"
    /\ e.stepNumber >= 0 /\ e.stepNumber < Len(steps)
    /\ e.rawOutput = "true"
    /\ e.row # NoRow

\* n rows more, all of step t (-1: of no step)
Tagged(tags, n, t) == tags \o [k \in 1..n |-> t]

InitOutput ==
    /\ rawFired = <<>>
    /\ rowStep = <<>>

InitReporter ==
    /\ closed = FALSE
    /\ rctx = FALSE
    /\ logOffset = 0
    /\ logRows = <<>>
    /\ state = [startedAt |-> NoTime, stoppedAt |-> NoTime,
                result |-> "unspecified", steps |-> <<>>]
    /\ clientM = "free"
    /\ rpc = NoRpc
    /\ pc = [c \in Callers |-> IF c = "main" THEN "wait" ELSE "log"]
    /\ sentTimes = [i \in 0..MaxRows |-> 0]
    /\ flushes = 0
    /\ maxAck = -1
    /\ closeArg = ""
    /\ closeRet = "none"
    /\ logRet = "none"
    /\ lastAck = NoAck
    /\ attempts = 0

\* run: reporter.ResetSteps(len(job.Steps))
ResetSteps ==
    /\ pc["main"] = "run"
    /\ \E l \in 0..MaxSteps :
         state' = [state EXCEPT !.steps = state.steps \o [i \in 1..l |-> NewStep]]
    /\ pc' = [pc EXCEPT !["main"] = "steps"]
    /\ rawFired' = [i \in 1..Len(state'.steps) |-> 0]
    /\ UNCHANGED rowStep
    /\ UNCHANGED <<closed, rctx, logOffset, logRows, clientM, rpc, sentTimes,
                   flushes, maxAck, closeArg, closeRet>>
    /\ UNCHANGED <<logRet, lastAck, attempts>>
    /\ UNCHANGED <<pollerVars, shutdownVars, runnerVars, parserVars, kvVars, fetchVars, jobVars>>

\* Fire(e), under stateMu, while at most maxRows rows exist
FireEntry(e, maxRows) ==
    /\ pc["main"] = "steps"
    /\ LET r == FireResult(state, logRows, logOffset, e) IN
         /\ logOffset + Len(r.logRows) <= maxRows
         /\ state' = r.state
         /\ logRows' = r.logRows
         /\ rawFired' = IF OutputOf(e, state.steps)
                        THEN [rawFired EXCEPT ![e.stepNumber + 1] = @ + 1]
                        ELSE rawFired
         /\ rowStep' = Tagged(rowStep, Len(r.logRows) - Len(logRows),
                              IF OutputOf(e, state.steps) THEN e.stepNumber ELSE -1)
    /\ UNCHANGED <<closed, rctx, logOffset, clientM, rpc, pc, sentTimes,
                   flushes, maxAck, closeArg, closeRet>>
    /\ UNCHANGED <<logRet, lastAck, attempts>>
    /\ UNCHANGED <<pollerVars, shutdownVars, runnerVars, parserVars, kvVars, fetchVars, jobVars>>

\* the executor logs an entry: Fire
Fire == \E e \in OtherEntries \cup MainEntries : FireEntry(e, MaxFireRows)

\* the rows of the steps' output that a run of Fire calls may append
MaxOutRows == 2

\* the executor logs an entry of the Main stage: Fire
FireStep == \E e \in MainEntries : FireEntry(e, MaxOutRows)

\* run: reporter.Logf(...): a row unless duringSteps
Logf ==
    /\ pc["main"] \in {"run", "steps"}
    /\ TotalRows < MaxRows
    /\ logRows' = IF ~DuringSteps(state.steps) THEN Append(logRows, "logf") ELSE logRows
    /\ rowStep' = Tagged(rowStep, Len(logRows') - Len(logRows), -1)
    /\ UNCHANGED rawFired
    /\ UNCHANGED <<closed, rctx, logOffset, state, clientM, rpc, pc, sentTimes,
                   flushes, maxAck, closeArg, closeRet>>
    /\ UNCHANGED <<logRet, lastAck, attempts>>
    /\ UNCHANGED <<pollerVars, shutdownVars, runnerVars, parserVars, kvVars, fetchVars, jobVars>>

\* run has returned and Run's deferred function calls Close(lastWords):
\* r.closed = true
CloseWith(lw) ==
    /\ pc["main"] \in {"run", "steps"}
    /\ closeArg' = lw
    /\ closed' = TRUE
    /\ pc' = [pc EXCEPT !["main"] = "marked"]
    /\ UNCHANGED <<rctx, logOffset, logRows, state, clientM, rpc, sentTimes,
                   flushes, maxAck, closeRet>>
    /\ UNCHANGED <<logRet, lastAck, attempts>>
    /\ UNCHANGED <<pollerVars, shutdownVars, runnerVars, parserVars, outputVars, kvVars, fetchVars, jobVars>>

\* Close is called with no last words, or with the error of run
CloseMark == \E lw \in {"", "exec error"} : CloseWith(lw)

\* Close, under stateMu: the state and the rows after the locked section
CloseState(st, now) ==
    IF st.result = "unspecified"
    THEN [st EXCEPT !.steps = StopSteps(st.steps, "cancelled"),
                    !.result = "failure",
                    !.stoppedAt = now]
    ELSE st

CloseRows(st, rows, lastW) ==
    IF st.result = "unspecified"
    THEN Append(rows, IF lastW = "" THEN "Early termination" ELSE lastW)
    ELSE IF lastW # "" THEN Append(rows, lastW)
    ELSE rows

\* Close: the section under stateMu
CloseLocked ==
    /\ pc["main"] = "marked"
    /\ \E now \in Times : state' = CloseState(state, now)
    /\ logRows' = CloseRows(state, logRows, closeArg)
    /\ pc' = [pc EXCEPT !["main"] = "log"]
    /\ UNCHANGED <<closed, rctx, logOffset, clientM, rpc, sentTimes,
                   flushes, maxAck, closeArg, closeRet>>
    /\ attempts' = 1
    /\ rowStep' = Tagged(rowStep, Len(logRows') - Len(logRows), -1)
    /\ UNCHANGED rawFired
    /\ UNCHANGED <<logRet, lastAck>>
    /\ UNCHANGED <<pollerVars, shutdownVars, runnerVars, parserVars, kvVars, fetchVars, jobVars>>

\* where a caller goes when ReportLog returns: RunDaemon drops the error and
\* goes on to ReportState; in Close an error ends the attempt
AfterLog(c, ok) == IF c = "daemon" \/ ok THEN "state" ELSE "failed"

\* where a caller goes when ReportState returns: RunDaemon arms the timer;
\* Close returns nil, or the attempt failed
AfterState(c, ok) ==
    IF c = "daemon" THEN "timer" ELSE IF ok THEN "returned" ELSE "failed"

\* the rows UpdateLog submits: absolute indices index .. index + n - 1
Submitted(i, r) == r.index <= i /\ i < r.index + r.n

\* ReportLog: &runnerv1.UpdateLogRequest{Index: int64(r.logOffset),
\* Rows: rows, NoMore: noMore}; of the rows their number is kept
UpdateLogRequest_FromZero(off, rows, noMore) ==
    [kind |-> "log", index |-> 0, n |-> Len(rows), noMore |-> noMore]
UpdateLogRequest(off, rows, noMore) ==
    [kind |-> "log", index |-> off, n |-> Len(rows), noMore |-> noMore]

TryLock_Always(m) == TRUE

\* r.clientM.Lock() goes through: the mutex is free
TryLock(m) == m = "free"

\* ReportLog: clientM.Lock(); rows := r.logRows; client.UpdateLog(ctx,
\* {Index: logOffset, Rows: rows, NoMore: noMore}). On a context that is done
\* the call fails before anything is sent.
ReportLogSend(c) ==
    /\ pc[c] = "log"
    /\ TryLock(clientM)
    /\ IF rctx
       THEN /\ pc' = [pc EXCEPT ![c] = AfterLog(c, FALSE)]
            /\ logRet' = "err"
            /\ UNCHANGED <<clientM, rpc, sentTimes, flushes>>
       ELSE /\ c = "daemon" => flushes < MaxFlush
            /\ logRet' = "none"
            /\ clientM' = c
            /\ rpc' = UpdateLogRequest(logOffset, logRows, c = "main")
            /\ sentTimes' = [i \in 0..MaxRows |->
                               IF Submitted(i, rpc') /\ sentTimes[i] < 2
                               THEN sentTimes[i] + 1 ELSE sentTimes[i]]
            /\ flushes' = flushes + 1
            /\ pc' = [pc EXCEPT ![c] = "logrpc"]
    /\ lastAck' = NoAck
    /\ UNCHANGED <<closed, rctx, logOffset, logRows, state, maxAck, closeArg, closeRet>>
    /\ attempts' = attempts
    /\ UNCHANGED <<pollerVars, shutdownVars, runnerVars, parserVars, outputVars, kvVars, fetchVars, jobVars>>

\* ReportLog: r.logOffset = ack
NewOffset_Relative(off, ack) == off + ack
NewOffset(off, ack) == ack

TrimRows_KeepHead(rows, off, ack) == SubSeq(rows, 1, Len(rows) - (ack - off))

\* ReportLog: r.logRows = r.logRows[ack-r.logOffset:]
TrimRows(rows, off, ack) == SubSeq(rows, ack - off + 1, Len(rows))

\* ReportLog: if noMore && ack < r.logOffset+len(rows), read after
\* r.logOffset = ack
NotAllSubmitted(noMore, ack, newOff, n) == noMore /\ ack < newOff + n

\* ReportLog: if ack < r.logOffset: "submitted logs are lost"
LogsLost_OrEqual(ack, off) == ack <= off
LogsLost(ack, off) == ack < off

\* the acks the coordinator may answer: below the offset, a part or all of
\* the buffer, or beyond it
Acks == (logOffset - 1)..(logOffset + Len(logRows) + 1)

\* ReportLog: the call returns an error (the request or the response is
\* lost, or the context is done meanwhile)
ReportLogFail(c) ==
    /\ pc[c] = "logrpc"
    /\ clientM' = "free"
    /\ rpc' = NoRpc
    /\ pc' = [pc EXCEPT ![c] = AfterLog(c, FALSE)]
    /\ logRet' = "err"
    /\ lastAck' = NoAck
    /\ UNCHANGED <<closed, rctx, logOffset, logRows, state, sentTimes, flushes,
                   maxAck, closeArg, closeRet>>
    /\ attempts' = attempts
    /\ UNCHANGED <<pollerVars, shutdownVars, runnerVars, parserVars, outputVars, kvVars, fetchVars, jobVars>>

\* ReportLog: the response carries ack. Below the offset: "submitted logs
\* are lost". Beyond the buffer the slice expression panics: clientM is
\* released by defer, stateMu stays locked, and nothing more is done for the
\* task. Otherwise the buffer is trimmed and the offset moved.
ReportLogAck(c) ==
    /\ pc[c] = "logrpc"
    /\ \E ack \in Acks :
         /\ maxAck' = IF ack > maxAck THEN ack ELSE maxAck
         /\ lastAck' = ack
         /\ IF LogsLost(ack, logOffset)
            THEN /\ pc' = [pc EXCEPT ![c] = AfterLog(c, FALSE)]
                 /\ logRet' = "lost"
                 /\ UNCHANGED <<logOffset, logRows>>
            ELSE IF ack - logOffset > Len(logRows)
            THEN /\ pc' = [k \in Callers |-> "panic"]
                 /\ logRet' = "panic"
                 /\ UNCHANGED <<logOffset, logRows>>
            ELSE /\ logRows' = TrimRows(logRows, logOffset, ack)
                 /\ logOffset' = NewOffset(logOffset, ack)
                 /\ logRet' = IF NotAllSubmitted(rpc.noMore, ack, logOffset', rpc.n)
                               THEN "notall" ELSE "nil"
                 /\ pc' = [pc EXCEPT ![c] = AfterLog(c, logRet' = "nil")]
    /\ clientM' = "free"
    /\ rpc' = NoRpc
    /\ UNCHANGED <<closed, rctx, state, sentTimes, flushes, closeArg, closeRet>>
    /\ attempts' = attempts
    /\ UNCHANGED <<pollerVars, shutdownVars, runnerVars, parserVars, outputVars, kvVars, fetchVars, jobVars>>

\* ReportState: clientM.Lock(); the state is cloned; client.UpdateTask(ctx,
\* {State, Outputs})
ReportStateSend(c) ==
    /\ pc[c] = "state"
    /\ TryLock(clientM)
    /\ IF rctx
       THEN /\ pc' = [pc EXCEPT ![c] = AfterState(c, FALSE)]
            /\ UNCHANGED <<clientM, rpc>>
       ELSE /\ clientM' = c
            /\ rpc' = [NoRpc EXCEPT !.kind = "state"]
            /\ pc' = [pc EXCEPT ![c] = "staterpc"]
    /\ closeRet' = closeRet
    /\ UNCHANGED <<closed, rctx, logOffset, logRows, state, sentTimes, flushes,
                   maxAck, closeArg>>
    /\ UNCHANGED <<logRet, lastAck, attempts>>
    /\ UNCHANGED <<pollerVars, shutdownVars, runnerVars, parserVars, outputVars, kvVars, fetchVars, jobVars>>

\* ReportState: the call fails, or the response arrives; a response whose
\* state has result Cancelled makes ReportState call r.cancel(), which ends
\* r.ctx. When RunDaemon's first, synchronous beat is over, run starts.
StateRecv(c, ok, cancel) ==
    /\ pc[c] = "staterpc"
    /\ rctx' = (rctx \/ (ok /\ cancel))
    /\ pc' = [k \in Callers |->
                IF k = c THEN AfterState(c, ok)
                ELSE IF c = "daemon" /\ pc[k] = "wait" THEN "run"
                ELSE pc[k]]
    /\ closeRet' = IF c = "main" /\ ok THEN "nil" ELSE closeRet
    /\ clientM' = "free"
    /\ rpc' = NoRpc
    /\ UNCHANGED <<closed, logOffset, logRows, state, sentTimes, flushes,
                   maxAck, closeArg>>
    /\ UNCHANGED <<logRet, lastAck, attempts>>
    /\ UNCHANGED <<pollerVars, shutdownVars, runnerVars, parserVars, outputVars, fetchVars>>

ReportStateRecv(c) ==
    /\ \E ok \in BOOLEAN, cancel \in BOOLEAN : StateRecv(c, ok, cancel)
    /\ UNCHANGED <<kvVars, jobVars>>

\* what UpdateTask gives: an error, or a response whose State is nil or has
\* a result
Responses ==
    {[ok |-> FALSE, state |-> "nil"]} \cup [ok : {TRUE}, state : {"nil"} \cup Results]

Cancels_AnyState(resp) == resp.ok /\ resp.state # "nil"

\* ReportState: err == nil, resp.Msg.State != nil and its Result is Cancelled
Cancels(resp) == resp.ok /\ resp.state = "cancelled"

\* ReportState: the call fails, or the response arrives, with its state:
\* r.cancel() is called for a state with result Cancelled
ReportStateResp(c) ==
    /\ \E resp \in Responses :
         /\ StateRecv(c, resp.ok, Cancels(resp))
         /\ hookCalls' = hookCalls + (IF Cancels(resp) THEN 1 ELSE 0)
         /\ cancelResps' = cancelResps + (IF resp.state = "cancelled" THEN 1 ELSE 0)
    /\ UNCHANGED <<runTask, generated, runAt, envs, stateErr>>
    /\ UNCHANGED kvVars

\* retry-go's default number of attempts (retry.Do is given no
\* retry.Attempts option)
RetryAttempts == 10

\* Close: retry.Do after a failed attempt: with r.ctx done, or with the last
\* attempt used up, it returns the error; otherwise it starts the next attempt
CloseRetry ==
    /\ pc["main"] = "failed"
    /\ IF ~rctx /\ attempts < RetryAttempts
       THEN /\ pc' = [pc EXCEPT !["main"] = "log"]
            /\ attempts' = attempts + 1
            /\ closeRet' = closeRet
       ELSE /\ pc' = [pc EXCEPT !["main"] = "returned"]
            /\ closeRet' = "err"
            /\ attempts' = attempts
    /\ UNCHANGED <<closed, rctx, logOffset, logRows, state, clientM, rpc,
                   sentTimes, flushes, maxAck, closeArg>>
    /\ UNCHANGED <<logRet, lastAck>>
    /\ UNCHANGED <<pollerVars, shutdownVars, runnerVars, parserVars, outputVars, kvVars, fetchVars, jobVars>>

\* RunDaemon, fired by the timer: if r.closed or r.ctx.Err() != nil it
\* returns. r.closed is written by Close without a lock: while Close has not
\* yet passed its locked section the read may give the old value.
DaemonTick ==
    /\ pc["daemon"] = "timer"
    /\ \E seen \in (IF pc["main"] = "marked" THEN {FALSE, closed} ELSE {closed}) :
         pc' = [pc EXCEPT !["daemon"] = IF seen \/ rctx THEN "stopped" ELSE "log"]
    /\ UNCHANGED <<closed, rctx, logOffset, logRows, state, clientM, rpc,
                   sentTimes, flushes, maxAck, closeArg, closeRet>>
    /\ UNCHANGED <<logRet, lastAck, attempts>>
    /\ UNCHANGED <<pollerVars, shutdownVars, runnerVars, parserVars, outputVars, kvVars, fetchVars, jobVars>>

\* the task context ends (deadline, or Run's deferred cancel)
ContextDone ==
    /\ ~rctx
    /\ rctx' = TRUE
    /\ UNCHANGED <<closed, logOffset, logRows, state, clientM, rpc, pc,
                   sentTimes, flushes, maxAck, closeArg, closeRet>>
    /\ UNCHANGED <<logRet, lastAck, attempts>>
    /\ UNCHANGED <<pollerVars, shutdownVars, runnerVars, parserVars, outputVars, kvVars, fetchVars, jobVars>>

(* ------------------------- the log line parser -------------------------- *)

\* A string is a sequence of symbols: the characters of Chars, and words that
\* stand for themselves (a command name, the "::" of a command line, "***").
Chars == {"a", "b"}

\* the longest text of a line
MaxText == 2

Texts == UNION {[1..n -> Chars] : n \in 0..MaxText}

\* the command names of handleCommand's switch, a name it does not know
\* ("set-mask") and a name that serves as stop token ("tok")
Builtin == {"add-mask", "debug", "notice", "warning", "error", "group",
            "endgroup", "stop-commands"}
Commands == Builtin \cup {"set-mask", "tok"}

\* the values of add-mask lines and of the task's secrets
MaskValues == {<<>>, <<"a">>, <<"a", "b">>}

\* the values of the other command lines
Values == {<<>>, <<"a">>, <<"a", "b">>}

\* the values of stop-commands lines: a fresh token, names of built-in
\* commands, and the empty value
TokenValues == {<<"tok">>, <<"debug">>, <<"add-mask">>, <<"group">>,
                <<"stop-commands">>, <<>>}

\* the lines fed to parseLogRow: plain text, and command lines ::name::value
TextLines == [kind : {"text"}, name : {""}, value : Texts]
CmdLines ==
    [kind : {"cmd"}, name : Commands \ {"add-mask", "stop-commands"}, value : Values]
      \cup [kind : {"cmd"}, name : {"add-mask"}, value : MaskValues]
      \cup [kind : {"cmd"}, name : {"stop-commands"}, value : TokenValues]
Lines == TextLines \cup CmdLines

\* the content of a line as parseLogRow reads it from entry.Message
Content(l) ==
    IF l.kind = "text" THEN l.value ELSE <<"::", l.name, "::">> \o l.value

\* key is a prefix of s[i..]
HasPrefixAt(key, s, i) ==
    /\ i + Len(key) - 1 <= Len(s)
    /\ \A j \in 1..Len(key) : s[i + j - 1] = key[j]

Least(S) == CHOOSE x \in S : \A y \in S : x <= y

\* strings.NewReplacer(oldnew...).Replace(s): one pass from the left; at each
\* position the earliest-added value that is a prefix of the rest is replaced
\* by "***" and skipped; the empty value matches everywhere, but not twice in
\* a row at one position
RECURSIVE ReplaceFrom(_, _, _, _)
ReplaceFrom(masks, s, i, prevMatchEmpty) ==
    IF i > Len(s) + 1 THEN <<>>
    ELSE LET M == {k \in 1..Len(masks) :
                     /\ HasPrefixAt(masks[k], s, i)
                     /\ ~(prevMatchEmpty /\ masks[k] = <<>>)}
         IN IF M # {}
            THEN <<"***">> \o ReplaceFrom(masks, s, i + Len(masks[Least(M)]),
                                         masks[Least(M)] = <<>>)
            ELSE IF i <= Len(s)
            THEN <<s[i]>> \o ReplaceFrom(masks, s, i + 1, FALSE)
            ELSE <<>>

\* r.logReplacer.Replace(content)
Replace(masks, s) == ReplaceFrom(masks, s, 1, FALSE)

\* what handleCommand gives: a row content or nil (ok = FALSE), and the
\* parser state it leaves
Nil(masks, token) == [ok |-> FALSE, content |-> <<>>, oldnew |-> masks, token |-> token]
Row(c, masks, token) == [ok |-> TRUE, content |-> c, oldnew |-> masks, token |-> token]

InStopSection_Never(token, command) == FALSE

\* handleCommand's first test: a stop token is set and the command is not it
InStopSection(token, command) == token # <<>> /\ <<command>> # token

AddMask_Dropped(masks, value) == masks

\* addMask: the value joins the table; the replacer is rebuilt from the table
AddMask(masks, value) == Append(masks, value)

Annotations_None == {}

\* the commands whose case returns the original content
Annotations == {"notice", "warning", "error", "group", "endgroup"}

\* handleCommand(originalContent, command, parameters, value): the cases in
\* the order of the switch, the stop token's case last
HandleCommand(masks, token, debug, original, command, value) ==
    IF InStopSection(token, command) THEN Row(original, masks, token)
    ELSE IF command = "add-mask" THEN Nil(AddMask(masks, value), token)
    ELSE IF command = "debug"
         THEN (IF debug THEN Row(value, masks, token) ELSE Nil(masks, token))
    ELSE IF command \in Annotations THEN Row(original, masks, token)
    ELSE IF command = "stop-commands" THEN Nil(masks, value)
    ELSE IF <<command>> = token THEN Nil(masks, <<>>)
    ELSE Row(original, masks, token)

\* parseLogRow: a command line goes through handleCommand; what is left is
\* redacted with the replacer as handleCommand left it
ParseLogRow(masks, token, debug, l) ==
    LET h == IF l.kind = "cmd"
             THEN HandleCommand(masks, token, debug, Content(l), l.name, l.value)
             ELSE Row(Content(l), masks, token)
    IN IF h.ok THEN [h EXCEPT !.content = Replace(h.oldnew, h.content)] ELSE h

\* the outcome of parseLogRow for line l in the current state
Parse(l) == ParseLogRow(oldnew, stopCommandEndToken, debugOutputEnabled, l)

DebugEnabled_WhenSet(secret) == secret # ""

\* NewReporter: task.Secrets["ACTIONS_STEP_DEBUG"] == "true"
DebugEnabled(secret) == secret = "true"

\* NewReporter: the secrets are masked from the start; debug output is on
\* iff the secret ACTIONS_STEP_DEBUG is "true"
InitParser ==
    /\ stepDebug \in {"", "true", "false"}
    /\ oldnew \in {<<>>, <<<<"a">>>>, <<<<"a", "b">>>>}
    /\ debugOutputEnabled = DebugEnabled(stepDebug)
    /\ stopCommandEndToken = <<>>
    /\ parsed = [kind |-> "none", name |-> "", ok |-> FALSE]

\* NewReporter for a task without secrets: nothing is masked, debug output
\* is off
InitNoSecrets ==
    /\ stepDebug = ""
    /\ oldnew = <<>>
    /\ debugOutputEnabled = DebugEnabled(stepDebug)
    /\ stopCommandEndToken = <<>>
    /\ parsed = [kind |-> "none", name |-> "", ok |-> FALSE]

\* no value is in the table twice (a value added again changes nothing in
\* what the replacer does: the earlier entry wins)
NoRepeat(masks) ==
    \A i, j \in 1..Len(masks) : i # j => masks[i] # masks[j]

\* Fire or Logf hands a line to parseLogRow
ParseLine ==
    /\ \E l \in Lines : \E p \in {Parse(l)} :
         /\ NoRepeat(p.oldnew)
         /\ oldnew' = p.oldnew
         /\ stopCommandEndToken' = p.token
         /\ parsed' = [kind |-> l.kind, name |-> l.name, ok |-> p.ok]
    /\ UNCHANGED <<debugOutputEnabled, stepDebug>>
    /\ UNCHANGED <<pollerVars, shutdownVars, runnerVars, reporterVars, outputVars, kvVars, fetchVars, jobVars>>

(* ------------------------ the job's outputs ----------------------------- *)

\* SetOutputs: len(k) > 255
MaxKeyLen == 255

\* SetOutputs: len(v) > 1024*1024
MaxValueLen == 1048576

\* the keys and values of the maps handed to SetOutputs, with their lengths
OutKeys == {"k1", "k2", "klong"}
OutValues == {"v1", "v2", "vbig"}

KeyLen(k) == IF k = "klong" THEN MaxKeyLen + 1 ELSE IF k = "k2" THEN MaxKeyLen ELSE 2
ValueLen(v) == IF v = "vbig" THEN MaxValueLen + 1 ELSE IF v = "v2" THEN MaxValueLen ELSE 2

KeyTooLong(k) == KeyLen(k) > MaxKeyLen
ValueTooLong(v) == ValueLen(v) > MaxValueLen

Loaded_Pending(outs, k) == outs[k] \in OutValues

\* r.outputs.Load(k) finds an entry, a value or the struct{}{} of a sent key
Loaded(outs, k) == outs[k] # "absent"

\* ReportState: the entries of r.outputs that hold a string
PendingKeys(outs) == {k \in OutKeys : outs[k] \in OutValues}

NoReq == [inflight |-> FALSE, keys |-> {}]
NoSet == [pc |-> "idle", k |-> "", v |-> ""]

InitOutputs ==
    /\ outputs = [k \in OutKeys |-> "absent"]
    /\ setOut = NoSet
    /\ updReq = NoReq
    /\ sentVals = {}
    /\ listed = {}
    /\ rejected = {}

\* SetOutputs, one turn of the loop up to r.outputs.Load, under stateMu: a
\* key that is too long is logged and skipped; a value that is too long is
\* logged; then the key is looked up. logf appends its row unless
\* duringSteps.
SetOutputsLoad ==
    /\ setOut.pc = "idle"
    /\ TotalRows < MaxRows
    /\ \E k \in OutKeys, v \in OutValues :
         /\ logRows' = IF (KeyTooLong(k) \/ ValueTooLong(v)) /\ ~DuringSteps(state.steps)
                       THEN Append(logRows, "ignore output")
                       ELSE logRows
         /\ rejected' = IF KeyTooLong(k) \/ ValueTooLong(v)
                        THEN rejected \cup {<<k, v>>} ELSE rejected
         /\ setOut' = [pc |-> IF KeyTooLong(k) \/ Loaded(outputs, k)
                              THEN "idle" ELSE "loaded",
                       k |-> k, v |-> v]
    /\ rowStep' = Tagged(rowStep, Len(logRows') - Len(logRows), -1)
    /\ UNCHANGED <<outputs, updReq, sentVals, listed, rawFired>>
    /\ UNCHANGED <<closed, rctx, logOffset, state, clientM, rpc, pc, sentTimes,
                   flushes, maxAck, closeArg, closeRet, logRet, lastAck, attempts>>
    /\ UNCHANGED <<fetchVars, pollerVars, shutdownVars, runnerVars, parserVars, jobVars>>

\* SetOutputs: r.outputs.Store(k, v)
SetOutputsStore ==
    /\ setOut.pc = "loaded"
    /\ outputs' = [outputs EXCEPT ![setOut.k] = setOut.v]
    /\ setOut' = [setOut EXCEPT !.pc = "idle"]
    /\ UNCHANGED <<updReq, sentVals, listed, rejected>>
    /\ UNCHANGED <<fetchVars, pollerVars, shutdownVars, runnerVars, reporterVars, parserVars,
                   outputVars, jobVars>>

\* ReportState, under clientM: the pending entries are collected and sent
\* with UpdateTask
UpdateTaskSend ==
    /\ ~updReq.inflight
    /\ updReq' = [inflight |-> TRUE, keys |-> PendingKeys(outputs)]
    /\ sentVals' = sentVals \cup {<<k, outputs[k]>> : k \in PendingKeys(outputs)}
    /\ UNCHANGED <<outputs, setOut, listed, rejected>>
    /\ UNCHANGED <<fetchVars, pollerVars, shutdownVars, runnerVars, reporterVars, parserVars,
                   outputVars, jobVars>>

\* the keys the coordinator has taken: those of the requests sent so far
Taken == {p[1] : p \in sentVals}

\* ReportState: UpdateTask fails, or its response lists keys the coordinator
\* has taken and each of them is stored as sent
UpdateTaskRecv ==
    /\ updReq.inflight
    /\ \E ok \in BOOLEAN : \E sentOutputs \in SUBSET Taken :
         /\ ~ok => sentOutputs = {}
         /\ outputs' = [k \in OutKeys |-> IF k \in sentOutputs THEN "sent" ELSE outputs[k]]
         /\ listed' = listed \cup sentOutputs
    /\ updReq' = NoReq
    /\ UNCHANGED <<setOut, sentVals, rejected>>
    /\ UNCHANGED <<fetchVars, pollerVars, shutdownVars, runnerVars, reporterVars, parserVars,
                   outputVars, jobVars>>

(* --------------------------- the tasks version -------------------------- *)

\* the highest version the coordinator returns
MaxVersion == 2

Versions == 0..MaxVersion

CompareAndSwap_Store(cur, old, new) == new

\* atomic.Int64.CompareAndSwap(old, new): the value afterwards
CompareAndSwap(cur, old, new) == IF cur = old THEN new ELSE cur

NoResp == [version |-> 0, task |-> FALSE]

InitFetch ==
    /\ tasksVersion = 0
    /\ fpc = [w \in Workers |-> "idle"]
    /\ fv = [w \in Workers |-> 0]
    /\ fresp = [w \in Workers |-> NoResp]
    /\ returned = {}

\* fetchTask: v := p.tasksVersion.Load(); the request carries v
FetchLoad(w) ==
    /\ fpc[w] = "idle"
    /\ fv' = [fv EXCEPT ![w] = tasksVersion]
    /\ fpc' = [fpc EXCEPT ![w] = "sent"]
    /\ fresp' = [fresp EXCEPT ![w] = NoResp]
    /\ UNCHANGED <<tasksVersion, returned>>
    /\ UNCHANGED <<pollerVars, shutdownVars, runnerVars, reporterVars, parserVars,
                   outputVars, kvVars, jobVars>>

\* (v and the response are locals of fetchTask: they are cleared when they
\* are read no more)
\* fetchTask: the call fails (or times out, or the response is empty) and
\* fetchTask returns; or the response arrives with a version, and with or
\* without a task: a version above v is stored if the counter still holds v;
\* without a task fetchTask returns
FetchRecv(w) ==
    /\ fpc[w] = "sent"
    /\ \/ /\ fpc' = [fpc EXCEPT ![w] = "idle"]
          /\ UNCHANGED <<tasksVersion, fresp, returned>>
       \/ \E ver \in Versions, task \in BOOLEAN :
            /\ tasksVersion' = IF ver > fv[w]
                               THEN CompareAndSwap(tasksVersion, fv[w], ver)
                               ELSE tasksVersion
            /\ fresp' = [fresp EXCEPT ![w] = IF task THEN [version |-> ver, task |-> TRUE]
                                              ELSE NoResp]
            /\ returned' = returned \cup {ver}
            /\ fpc' = [fpc EXCEPT ![w] = IF task THEN "task" ELSE "idle"]
    /\ fv' = [fv EXCEPT ![w] = 0]
    /\ UNCHANGED <<pollerVars, shutdownVars, runnerVars, reporterVars, parserVars,
                   outputVars, kvVars, jobVars>>

\* fetchTask: p.tasksVersion.CompareAndSwap(resp.Msg.TasksVersion, 0); the
\* task is returned
FetchReset(w) ==
    /\ fpc[w] = "task"
    /\ tasksVersion' = CompareAndSwap(tasksVersion, fresp[w].version, 0)
    /\ fpc' = [fpc EXCEPT ![w] = "idle"]
    /\ fresp' = [fresp EXCEPT ![w] = NoResp]
    /\ UNCHANGED <<fv, returned>>
    /\ UNCHANGED <<pollerVars, shutdownVars, runnerVars, reporterVars, parserVars,
                   outputVars, kvVars, jobVars>>

(* ---------------------------- generateWorkflow -------------------------- *)

\* the needs a task carries at most
MaxNeeds == 2

\* job ids, each with the bytes that follow its first three ("job")
IdBytes == [job1 |-> <<1>>, job10 |-> <<1, 0>>, job2 |-> <<2>>, job9 |-> <<9>>]

NeedIds == DOMAIN IdBytes

PayloadIds == {"job8", "job9"}

Min(a, b) == IF a < b THEN a ELSE b

\* a < b for strings: at the first byte where they differ, or a a proper
\* prefix of b
Less(a, b) ==
    LET x == IdBytes[a]
        y == IdBytes[b]
    IN \E i \in 1..(Min(Len(x), Len(y)) + 1) :
         /\ \A j \in 1..(i - 1) : x[j] = y[j]
         /\ \/ i > Len(x) /\ i <= Len(y)
            \/ i <= Len(x) /\ i <= Len(y) /\ x[i] < y[i]

RECURSIVE InsertSorted(_, _)
InsertSorted(id, seq) ==
    IF seq = <<>> THEN <<id>>
    ELSE IF Less(Head(seq), id) THEN <<Head(seq)>> \o InsertSorted(id, Tail(seq))
    ELSE <<id>> \o seq

RECURSIVE SortStrings(_)

SortStrings_Unsorted(seq) == seq

\* sort.Strings
SortStrings(seq) ==
    IF seq = <<>> THEN <<>> ELSE InsertSorted(Head(seq), SortStrings(Tail(seq)))

\* runnerv1.Result.String(), letter by letter
ResultNames ==
    [success |-> <<"R", "E", "S", "U", "L", "T", "_", "S", "U", "C", "C", "E", "S", "S">>,
     failure |-> <<"R", "E", "S", "U", "L", "T", "_", "F", "A", "I", "L", "U", "R", "E">>,
     skipped |-> <<"R", "E", "S", "U", "L", "T", "_", "S", "K", "I", "P", "P", "E", "D">>]

NeedResults == DOMAIN ResultNames

HasPrefix(s, prefix) ==
    /\ Len(prefix) <= Len(s)
    /\ \A i \in 1..Len(prefix) : s[i] = prefix[i]

\* strings.TrimPrefix
TrimPrefix(s, prefix) ==
    IF HasPrefix(s, prefix) THEN SubSeq(s, Len(prefix) + 1, Len(s)) ELSE s

LowerOf ==
    [A |-> "a", C |-> "c", D |-> "d", E |-> "e", F |-> "f", I |-> "i", K |-> "k",
     L |-> "l", P |-> "p", R |-> "r", S |-> "s", T |-> "t", U |-> "u"]

\* strings.ToLower
ToLower(s) == [i \in 1..Len(s) |-> IF s[i] \in DOMAIN LowerOf THEN LowerOf[s[i]] ELSE s[i]]

NeedOutputs == {"o1", "o2"}

\* task.Needs: per need id its outputs and its result
NeedMaps ==
    UNION {[K -> [outputs : NeedOutputs, result : NeedResults]] :
           K \in {S \in SUBSET NeedIds : Cardinality(S) <= MaxNeeds}}

\* task.WorkflowPayload: one that is not a workflow, or the ids of its
\* jobs and the needs each of them declares
Payloads ==
    {[ok |-> FALSE, jobs |-> {}, needs |-> <<>>]}
      \cup [ok : {TRUE}, jobs : SUBSET PayloadIds, needs : {<<>>, <<"build">>}]

\* a task: its payload, its needs and whether task.Context is set
Tasks == [payload : Payloads, needs : NeedMaps, context : {TRUE}]

NoWorkflow == [err |-> "none", jobID |-> "", jobs |-> <<>>]

\* a job as the payload gives it
PayloadJob(payload) ==
    [steps |-> TRUE, needs |-> payload.needs, outputs |-> "", result |-> <<>>]

\* &model.Job{Outputs: need.Outputs, Result: ...}
NeedJob(need) ==
    [steps |-> FALSE, needs |-> <<>>, outputs |-> need.outputs,
     result |-> ToLower(TrimPrefix(ResultNames[need.result],
                                   <<"R", "E", "S", "U", "L", "T", "_">>))]

\* the orders a range over a map with these keys can take
RangeOrders(K) ==
    {o \in [1..Cardinality(K) -> K] : \A i, j \in 1..Cardinality(K) : o[i] = o[j] => i = j}

\* generateWorkflow(task), the range over task.Needs taking the keys in
\* this order
GenerateWorkflow(t, order) ==
    IF ~t.payload.ok THEN [NoWorkflow EXCEPT !.err = "yaml"]
    ELSE IF Cardinality(t.payload.jobs) # 1
    THEN [NoWorkflow EXCEPT !.err = "multiple jobs found"]
    ELSE LET jobID == CHOOSE j \in t.payload.jobs : TRUE
             withNeeds == [id \in t.payload.jobs \cup DOMAIN t.needs |->
                             IF id \in DOMAIN t.needs THEN NeedJob(t.needs[id])
                             ELSE PayloadJob(t.payload)]
         IN [err |-> "",
             jobID |-> jobID,
             jobs |-> [withNeeds EXCEPT ![jobID].needs = SortStrings(order)]]

PlainTask ==
    [payload |-> [ok |-> TRUE, jobs |-> {"job9"}, needs |-> <<>>], needs |-> <<>>,
     context |-> TRUE]

InitNoJob ==
    /\ runTask = PlainTask
    /\ generated = NoWorkflow
    /\ runAt = "start"
    /\ envs = ""
    /\ hookCalls = 0
    /\ cancelResps = 0
    /\ stateErr = "none"

InitTasks ==
    /\ runTask \in Tasks
    /\ generated = NoWorkflow
    /\ runAt = "start"
    /\ envs = ""
    /\ hookCalls = 0
    /\ cancelResps = 0
    /\ stateErr = "none"

AfterGenerate_Plan(err) == "planned"

\* run: if err != nil { return err }
AfterGenerate(err) == IF err = "" THEN "planned" ELSE "failed"

\* run: generateWorkflow(task)
Generate ==
    /\ runAt = "start"
    /\ \E order \in RangeOrders(DOMAIN runTask.needs) :
         generated' = GenerateWorkflow(runTask, order)
    /\ runAt' = AfterGenerate(generated'.err)
    /\ UNCHANGED <<runTask, envs, hookCalls, cancelResps, stateErr>>
    /\ UNCHANGED <<pollerVars, shutdownVars, runnerVars, reporterVars, parserVars,
                   outputVars, kvVars, fetchVars>>

(* ------------------------------ Runner.run ------------------------------ *)

\* the tasks of the runs: any payload, no needs, with or without a context
RunTasks ==
    {[t EXCEPT !.context = c] : t \in {u \in Tasks : DOMAIN u.needs = {}}, c \in BOOLEAN}

InitRunTasks ==
    /\ runTask \in RunTasks
    /\ generated = NoWorkflow
    /\ runAt = "start"
    /\ envs = ""
    /\ hookCalls = 0
    /\ cancelResps = 0
    /\ stateErr = "none"

\* run: reporter.Logf("... received task ...", ..., task.Context.Fields[...])
RunLogf == runAt = "start" /\ TotalRows = 0 /\ runTask.context /\ Logf

\* run: task.Context is nil, its Fields are read, and run recovers the panic
RunPanics ==
    /\ runAt = "start"
    /\ TotalRows = 0
    /\ ~runTask.context
    /\ runAt' = "errored"
    /\ UNCHANGED <<runTask, generated, envs, hookCalls, cancelResps, stateErr>>
    /\ UNCHANGED <<pollerVars, shutdownVars, runnerVars, reporterVars, parserVars,
                   outputVars, kvVars, fetchVars>>

\* run: generateWorkflow(task), after the first row
RunGenerate == TotalRows > 0 /\ Generate

\* run: PlanJob, or runner.New after ResetSteps, returns an error
PlanFails ==
    /\ runAt = "planned"
    /\ pc["main"] \in {"run", "steps"}
    /\ runAt' = "errored"
    /\ UNCHANGED <<runTask, generated, envs, hookCalls, cancelResps, stateErr>>
    /\ UNCHANGED <<pollerVars, shutdownVars, runnerVars, reporterVars, parserVars,
                   outputVars, kvVars, fetchVars>>

\* run: reporter.ResetSteps(len(job.Steps))
RunResetSteps == runAt = "planned" /\ ResetSteps

\* run: execErr := executor(ctx) starts
ExecutorStarts ==
    /\ runAt = "planned"
    /\ pc["main"] = "steps"
    /\ runAt' = "executing"
    /\ UNCHANGED <<runTask, generated, envs, hookCalls, cancelResps, stateErr>>
    /\ UNCHANGED <<pollerVars, shutdownVars, runnerVars, reporterVars, parserVars,
                   outputVars, kvVars, fetchVars>>

\* the executor logs an entry
RunFire == runAt = "executing" /\ Fire

\* the executor returns nil or an error, or panics and run recovers
ExecutorReturns ==
    /\ runAt = "executing"
    /\ \E r \in {"returned", "errored"} : runAt' = r
    /\ UNCHANGED <<runTask, generated, envs, hookCalls, cancelResps, stateErr>>
    /\ UNCHANGED <<pollerVars, shutdownVars, runnerVars, reporterVars, parserVars,
                   outputVars, kvVars, fetchVars>>

\* Run's deferred function: lastWords = runErr.Error(), "" for nil
LastWords(at, gen) ==
    IF at = "failed" THEN gen.err
    ELSE IF at = "errored" THEN "exec error"
    ELSE ""

\* Run's deferred function: reporter.Close(lastWords)
RunClose ==
    /\ runAt \in {"failed", "returned", "errored"}
    /\ CloseWith(LastWords(runAt, generated))

(* ------------------------- Close and the outputs ------------------------ *)

\* the outputs when run has returned: of two keys each has no entry, a
\* pending value, or is sent
InitPending ==
    /\ outputs \in {[k \in OutKeys |-> IF k = "k1" THEN a ELSE IF k = "k2" THEN b
                                       ELSE "absent"] :
                      a \in {"absent", "v1"}, b \in {"v2", "sent"}}
    /\ setOut = NoSet
    /\ updReq = NoReq
    /\ sentVals = {}
    /\ listed = {}
    /\ rejected = {}

StateError_IgnorePending(ok, outs) == IF ~ok THEN "rpc" ELSE "nil"

\* ReportState: what it returns, the outputs being outs after the response's
\* SentOutputs were stored
StateError(ok, outs) ==
    IF ~ok THEN "rpc"
    ELSE IF PendingKeys(outs) # {} THEN "pending"
    ELSE "nil"

\* ReportState: UpdateTask fails, or its response lists keys as sent: each is
\* stored as sent, and an error is returned while a value is left
ReportStateOutputs(c) ==
    /\ \E ok \in BOOLEAN : \E sentOutputs \in SUBSET PendingKeys(outputs) :
         /\ ~ok => sentOutputs = {}
         /\ outputs' = [k \in OutKeys |-> IF k \in sentOutputs THEN "sent" ELSE outputs[k]]
         /\ listed' = listed \cup sentOutputs
         /\ stateErr' = StateError(ok, outputs')
         /\ StateRecv(c, stateErr' = "nil", FALSE)
    /\ UNCHANGED <<setOut, updReq, sentVals, rejected>>
    /\ UNCHANGED <<runTask, generated, runAt, envs, hookCalls, cancelResps>>

(* --------------------------- specifications ---------------------------- *)

Init == InitPoller /\ InitRunner /\ InitReporter /\ InitNoSecrets /\ InitOutput /\ InitOutputs /\ InitFetch /\ InitNoJob

WorkerNext ==
    \/ \E w \in Workers : LimiterWait(w)
    \/ \E w \in Workers : FetchTask(w)
    \/ \E w \in Workers : RunLoad(w)
    \/ \E w \in Workers : RunStore(w)
    \/ \E w \in Workers : ExecutorEnds(w)
    \/ \E w \in Workers : CloseCall(w)
    \/ \E w \in Workers : CloseFlush(w)

\* the poll loop and Shutdown
Next ==
    \/ PollStart
    \/ PollClose
    \/ WorkerNext
    \/ ShutdownCall
    \/ ShutdownTimeout
    \/ ShutdownSelectDone
    \/ ShutdownSelectTimeout
    \/ ShutdownRecv

Spec == Init /\ [][Next]_vars

\* the workers and Runner.Run with the task deadline and the coordinator's
\* cancel signal, while no shutdown is asked for
RunnerNext ==
    \/ PollStart
    \/ WorkerNext
    \/ \E w \in Workers : DeadlineExpires(w)
    \/ \E w \in Workers : CoordCancel(w)

SpecRunner == Init /\ [][RunnerNext]_vars

\* the Reporter when RunDaemon's first, synchronous beat has been answered
\* and run is about to start
InitRunning ==
    /\ closed = FALSE
    /\ rctx = FALSE
    /\ logOffset = 0
    /\ logRows = <<>>
    /\ state = [startedAt |-> NoTime, stoppedAt |-> NoTime,
                result |-> "unspecified", steps |-> <<>>]
    /\ clientM = "free"
    /\ rpc = NoRpc
    /\ pc = [c \in Callers |-> IF c = "main" THEN "run" ELSE "timer"]
    /\ sentTimes = [i \in 0..MaxRows |-> 0]
    /\ flushes = 1
    /\ maxAck = 0
    /\ closeArg = ""
    /\ closeRet = "none"
    /\ logRet = "nil"
    /\ lastAck = 0
    /\ attempts = 0

\* one Reporter, the task state: the executor's entries and Close's locked
\* section
FireNext ==
    \/ ResetSteps
    \/ Fire
    \/ CloseMark
    \/ CloseLocked

InitFire == InitPoller /\ InitRunner /\ InitRunning /\ InitNoSecrets /\ InitOutput /\ InitOutputs /\ InitFetch /\ InitNoJob

SpecFire == InitFire /\ [][FireNext]_vars

\* one Reporter, the steps' output: the executor's entries of the Main stage
OutputNext ==
    \/ ResetSteps
    \/ FireStep

SpecOutput == InitFire /\ [][OutputNext]_vars

\* the step vectors the executor can leave behind when it returns: no step,
\* a step that ended, a step cut off in its output
LeftSteps ==
    {<<>>,
     <<[NewStep EXCEPT !.result = "success"]>>,
     <<[NewStep EXCEPT !.logLength = 1]>>}

\* the Reporter when the executor has returned
InitExecuted ==
    /\ InitPoller /\ InitRunner /\ InitNoSecrets /\ InitOutput /\ InitOutputs
    /\ InitFetch /\ InitNoJob
    /\ closed = FALSE
    /\ rctx = FALSE
    /\ logOffset = 0
    /\ logRows = <<>>
    /\ \E st \in LeftSteps :
         state = [startedAt |-> NoTime, stoppedAt |-> NoTime,
                  result |-> "unspecified", steps |-> st]
    /\ clientM = "free"
    /\ rpc = NoRpc
    /\ pc = [c \in Callers |-> IF c = "main" THEN "steps" ELSE "timer"]
    /\ sentTimes = [i \in 0..MaxRows |-> 0]
    /\ flushes = 1
    /\ maxAck = 0
    /\ closeArg = ""
    /\ closeRet = "none"
    /\ logRet = "nil"
    /\ lastAck = 0
    /\ attempts = 0

\* one Reporter, the job's outputs: SetOutputs against the heartbeat's
\* ReportState
SetOutputsNext ==
    \/ SetOutputsLoad
    \/ SetOutputsStore
    \/ UpdateTaskSend
    \/ UpdateTaskRecv

SpecSetOutputs == InitExecuted /\ [][SetOutputsNext]_vars

\* the workers' fetchTask calls against one tasks version
FetchNext ==
    \/ \E w \in Workers : FetchLoad(w)
    \/ \E w \in Workers : FetchRecv(w)
    \/ \E w \in Workers : FetchReset(w)

SpecFetch == Init /\ [][FetchNext]_vars

InitWorkflow ==
    InitPoller /\ InitRunner /\ InitReporter /\ InitNoSecrets /\ InitOutput
      /\ InitOutputs /\ InitFetch /\ InitTasks

\* generateWorkflow over every task
WorkflowNext == Generate

SpecWorkflow == InitWorkflow /\ [][WorkflowNext]_vars

InitRun ==
    InitPoller /\ InitRunner /\ InitRunning /\ InitNoSecrets /\ InitOutput
      /\ InitOutputs /\ InitFetch /\ InitRunTasks

\* one Run: run from its first row to the locked section of Close
RunNext ==
    \/ RunLogf
    \/ RunPanics
    \/ RunGenerate
    \/ PlanFails
    \/ RunResetSteps
    \/ ExecutorStarts
    \/ RunFire
    \/ ExecutorReturns
    \/ RunClose
    \/ CloseLocked

SpecRun == InitRun /\ [][RunNext]_vars

\* one Reporter, the heartbeat and Close with the states the coordinator
\* answers: once r.ctx is done the executor returns and Run's deferred
\* function calls Close
CancelNext ==
    \/ CloseMark
    \/ CloseLocked
    \/ CloseRetry
    \/ DaemonTick
    \/ ContextDone
    \/ \E c \in Callers : ReportLogSend(c)
    \/ \E c \in Callers : ReportLogFail(c)
    \/ \E c \in Callers : ReportLogAck(c)
    \/ \E c \in Callers : ReportStateSend(c)
    \/ \E c \in Callers : ReportStateResp(c)

ExecutorUnwinds == rctx /\ CloseMark

SpecCancel == Init /\ [][CancelNext]_vars /\ WF_vars(ExecutorUnwinds)

InitClose ==
    InitPoller /\ InitRunner /\ InitRunning /\ InitNoSecrets /\ InitOutput
      /\ InitPending /\ InitFetch /\ InitNoJob

\* one Reporter from the end of run: Close and the heartbeat flushing the
\* rows and the outputs
CloseNext ==
    \/ CloseMark
    \/ CloseLocked
    \/ CloseRetry
    \/ DaemonTick
    \/ ContextDone
    \/ \E c \in Callers : ReportLogSend(c)
    \/ \E c \in Callers : ReportLogFail(c)
    \/ \E c \in Callers : ReportLogAck(c)
    \/ \E c \in Callers : ReportStateSend(c)
    \/ \E c \in Callers : ReportStateOutputs(c)

SpecClose == InitClose /\ [][CloseNext]_vars

\* one Reporter, the log stream: rows are appended, the heartbeat and Close
\* submit them, the coordinator answers
FlushNext ==
    \/ Logf
    \/ CloseMark
    \/ CloseLocked
    \/ CloseRetry
    \/ DaemonTick
    \/ ContextDone
    \/ \E c \in Callers : ReportLogSend(c)
    \/ \E c \in Callers : ReportLogFail(c)
    \/ \E c \in Callers : ReportLogAck(c)
    \/ \E c \in Callers : ReportStateSend(c)
    \/ \E c \in Callers : ReportStateRecv(c)

SpecFlush == Init /\ [][FlushNext]_vars

\* the parser of one Reporter: lines arrive one by one
ParserNext == ParseLine

InitParsing == InitPoller /\ InitRunner /\ InitReporter /\ InitParser /\ InitOutput /\ InitOutputs /\ InitFetch /\ InitNoJob

SpecParser == InitParsing /\ [][ParserNext]_vars

(* ------------------------- claims: Poller, Runner ---------------------- *)

\* C1: if the timeout of Shutdown elapses while a worker is still executing a
\* task, Shutdown cancels the jobs context, waits for every worker to exit
\* (the done channel is closed) and returns the timeout error.
C1_TimeoutCancelsJobs ==
    (sdPc = "returned" /\ sdTimedOutBusy) =>
        (jobsCtx /\ done.closed /\ sdErr = "timeout")

\* C2: the done channel is closed at most once and only after all workers have
\* exited; whenever Shutdown has returned nil it is closed (once), every
\* worker has exited and no worker is inside Runner.Run or Reporter.Close.
C2_NilAfterDrain ==
    /\ done.closes <= 1
    /\ done.closed => (done.closes = 1 /\ \A w \in Workers : wpc[w] = "exited")
    /\ sdErr = "nil" =>
          /\ done.closed
          /\ \A w \in Workers : wpc[w] = "exited" /\ wtask[w] = NoTask

\* Shutdown returned nil and a task was in flight when it was called
C2_Witness == sdErr = "nil" /\ sdBusy

\* C3: for every task id at most one Runner.Run call is past the duplicate
\* check and executing (holding a Reporter) at any time.
C3_AtMostOncePerTask ==
    \A t \in TaskIds :
        Cardinality({w \in Workers : wpc[w] \in Executing /\ wtask[w] = t}) <= 1

\* C4: the context the Reporter uses for the RPCs of Close is done only by the
\* coordinator's cancel signal, not by the per-task deadline or the jobs
\* scope, so that Close can still publish the final flush.
C4_ReporterCtxIndependent ==
    \A w \in Workers :
        (wpc[w] = "flush" /\ ReporterCtxDone(w)) => taskCtx[w] = "hook"

C6_CloseForcesFailure ==
    [][(pc["main"] = "marked" /\ pc'["main"] = "log" /\ state.result = "unspecified")
        => /\ state'.result = "failure"
           /\ state'.stoppedAt # NoTime
           /\ state'.startedAt = state.startedAt
           /\ Len(state'.steps) = Len(state.steps)
           /\ \A i \in 1..Len(state.steps) :
                IF state.steps[i].result = "unspecified"
                THEN state'.steps[i] = [state.steps[i] EXCEPT !.result = "cancelled"]
                ELSE state'.steps[i] = state.steps[i]
           /\ Len(logRows') = Len(logRows) + 1
           /\ SubSeq(logRows', 1, Len(logRows)) = logRows
           /\ logRows'[Len(logRows')] =
                (IF closeArg = "" THEN "Early termination" ELSE closeArg)]_vars

\* Close has run on an Unspecified task with empty lastWords, one step had
\* ended with Success and another had not ended
C6_Witness ==
    /\ pc["main"] = "log"
    /\ state.result = "failure"
    /\ Len(logRows) > 0
    /\ logRows[Len(logRows)] = "Early termination"
    /\ \E i, j \in 1..Len(state.steps) :
         state.steps[i].result = "cancelled" /\ state.steps[j].result = "success"

\* C7: the task result is assigned at most once and only while it is
\* Unspecified: once it is set, no later jobResult entry and no Close changes
\* the result or stopped-at.
C7_ResultAssignedOnce ==
    [][state.result # "unspecified"
        => (state'.result = state.result /\ state'.stoppedAt = state.stoppedAt)]_vars

\* C8: once a step has a terminal result, none of its fields changes under
\* later Fire calls.
C8_TerminatedStepFrozen ==
    [][\A i \in 1..Len(state.steps) :
         state.steps[i].result # "unspecified" => state'.steps[i] = state.steps[i]]_vars

\* C9 as stated: every absolute row index appears in at most one submitted
\* batch.
C9_EachRowSubmittedOnce == \A i \in 0..MaxRows : sentTimes[i] <= 1

\* C9: every batch starts at log_offset (0 at first, then the last accepted
\* ack) and carries the whole buffer, so the rows it submits are rows
\* log_offset .. appended-1: no batch starts beyond the rows appended so far
\* and no row below an accepted ack is submitted again; rows that are not
\* acknowledged are submitted again by the next flush.
C9_BatchesStartAtOffset ==
    [][flushes' # flushes
        => /\ rpc'.kind = "log"
           /\ rpc'.index = logOffset
           /\ rpc'.n = Len(logRows)
           /\ flushes = 0 => rpc'.index = 0
           /\ \A i \in 0..MaxRows :
                sentTimes'[i] # sentTimes[i] => (logOffset <= i /\ i < TotalRows)]_vars

\* a row was submitted twice and acknowledged afterwards
C9_Witness == \E i \in 0..MaxRows : sentTimes[i] = 2 /\ i < logOffset

\* C10: log_offset never decreases and never exceeds the largest ack
\* received (0 while none was received); the answer to a request without rows
\* never moves it beyond the ack; and a response repeated for the state it
\* left behind changes neither the offset nor the buffer.
C10_OffsetFollowsAck ==
    [][/\ logOffset' >= logOffset
       /\ logOffset' <= (IF maxAck' < 0 THEN 0 ELSE maxAck')
       /\ (rpc.kind = "log" /\ rpc.n = 0 /\ logOffset' # logOffset) => logOffset' <= maxAck'
       /\ \A ack \in logOffset..TotalRows :
            LET off1 == NewOffset(logOffset, ack)
                rows1 == TrimRows(logRows, logOffset, ack)
            IN /\ NewOffset(off1, ack) = off1
               /\ TrimRows(rows1, off1, ack) = rows1]_vars

\* a part of the buffer was acknowledged: the offset has moved and rows are
\* still buffered
C10_Witness == logOffset > 0 /\ Len(logRows) > 0 /\ maxAck = logOffset /\ flushes >= 2

\* C11: when UpdateLog answers with an ack below the current log_offset,
\* ReportLog returns "submitted logs are lost" and leaves log_offset and the
\* buffered rows as they were; it returns that error in no other case.
C11_LostLogsRejected ==
    [][(rpc.kind = "log" /\ rpc'.kind = "none" /\ lastAck' # NoAck)
        => /\ (lastAck' < logOffset) <=> (logRet' = "lost")
           /\ lastAck' < logOffset => (logOffset' = logOffset /\ logRows' = logRows)]_vars

\* an ack below a log_offset that had already moved, with rows in the buffer
C11_Witness == logRet = "lost" /\ lastAck < logOffset /\ logOffset > 0 /\ Len(logRows) > 0

\* C12: a final ReportLog(true) returns nil exactly when the ack equals the
\* request's index plus the number of rows it submitted, and returns "not all
\* logs are submitted" only when the ack covers fewer rows than were submitted.
C12_FinalFlushNeedsFullAck ==
    [][(rpc.kind = "log" /\ rpc.noMore /\ rpc'.kind = "none" /\ lastAck' # NoAck)
        => /\ (logRet' = "nil") <=> (lastAck' = rpc.index + rpc.n)
           /\ logRet' = "notall" => lastAck' < rpc.index + rpc.n]_vars

\* C13: Close repeats ReportLog(true); ReportState until both succeed in the
\* same attempt or the Reporter's context is cancelled: it returns nil only
\* from an attempt whose ReportState succeeded, and it returns an error only
\* when the context is done.
C13_CloseRetriesUntilDone ==
    /\ closeRet = "nil" => pc["main"] = "returned"
    /\ closeRet = "err" => rctx

(* -------------------- claims about the log line parser ------------------- *)

\* v occurs in s as a contiguous piece
Occurs(v, s) == \E i \in 1..Len(s) : HasPrefixAt(v, s, i)

\* p is a prefix of q
IsPrefix(p, q) == Len(p) <= Len(q) /\ SubSeq(q, 1, Len(p)) = p

\* the line is interpreted as a command: no stop token is set, or the line
\* is named as the stop token
Interpreted(l) ==
    l.kind = "cmd" /\ (stopCommandEndToken = <<>> \/ <<l.name>> = stopCommandEndToken)

\* what an uninterpreted line gives: one row with the redacted original
\* content, and the parser state as it was
PlainRow(l) == Row(Replace(oldnew, Content(l)), oldnew, stopCommandEndToken)

\* C14 as stated: whatever lines came before, ::add-mask::v gives no row and
\* v is masked in every row emitted after it.
C14_AddMaskAlwaysMasks ==
    \A l \in Lines : \A p \in {Parse(l)} :
        l.name = "add-mask"
            => /\ ~p.ok
               /\ \E k \in 1..Len(p.oldnew) : p.oldnew[k] = l.value

\* C14, amended: an add-mask line that is interpreted (no stop-commands
\* section is open) gives no row and appends v to the mask table; the table
\* only grows; every emitted row is the line's content after one
\* left-to-right replacement of the table's values by "***", so that no
\* non-empty masked value is left in it.
C14_InterpretedAddMaskMasks ==
    \A l \in Lines : \A p \in {Parse(l)} :
        /\ (l.name = "add-mask" /\ Interpreted(l))
              => /\ ~p.ok
                 /\ p.oldnew = Append(oldnew, l.value)
                 /\ p.token = stopCommandEndToken
        /\ IsPrefix(oldnew, p.oldnew)
        /\ p.ok
              => \A k \in 1..Len(oldnew) :
                    oldnew[k] # <<>> => ~Occurs(oldnew[k], p.content)

\* an add-mask line was interpreted, and a later line with the masked value
\* in it is emitted with "***" in its place
C14_Witness ==
    /\ parsed.name = "add-mask" /\ ~parsed.ok
    /\ stopCommandEndToken = <<>>
    /\ Len(oldnew) = 2 /\ oldnew[2] = <<"a", "b">> /\ oldnew[1] = <<>>
    /\ \E l \in TextLines : Occurs(<<"a", "b">>, l.value) /\ Parse(l).ok
                             /\ ~Occurs(<<"a", "b">>, Parse(l).content)

\* C15: while a stop token s is set, a command line not named s is not
\* interpreted: it gives one row with its original content, redacted with
\* the masks registered so far, adds no mask and leaves the token; the
\* stop-commands line that opens the section gives no row.
C15_StopSectionPassesThrough ==
    \A l \in CmdLines :
        /\ (stopCommandEndToken # <<>> /\ <<l.name>> # stopCommandEndToken)
              => Parse(l) = PlainRow(l)
        /\ (stopCommandEndToken = <<>> /\ l.name = "stop-commands")
              => Parse(l) = Nil(oldnew, l.value)

\* inside a section, with a mask registered before it, an add-mask line was
\* emitted as a row
C15_Witness ==
    /\ stopCommandEndToken = <<"tok">>
    /\ parsed.name = "add-mask" /\ parsed.ok
    /\ oldnew = <<<<"a">>>>
    /\ stepDebug = "false"

\* C16: whatever the stop token s is, the command line named s clears the
\* token and gives no row.
C16_TokenLineEndsSection ==
    \A l \in CmdLines :
        (stopCommandEndToken # <<>> /\ <<l.name>> = stopCommandEndToken)
            => (~Parse(l).ok /\ Parse(l).token = <<>>)

\* C17: outside a stop section ::debug::v gives the row v, redacted, when
\* debug output is enabled, and no row when it is not; debug output is
\* enabled exactly when the secret ACTIONS_STEP_DEBUG is "true".
C17_DebugGated ==
    /\ debugOutputEnabled <=> (stepDebug = "true")
    /\ \A l \in CmdLines :
          (stopCommandEndToken = <<>> /\ l.name = "debug")
              => Parse(l) = IF debugOutputEnabled
                             THEN Row(Replace(oldnew, l.value), oldnew, <<>>)
                             ELSE Nil(oldnew, <<>>)

\* a debug line was emitted outside a section, with a mask registered
C17_Witness ==
    /\ parsed.name = "debug" /\ parsed.ok
    /\ stopCommandEndToken = <<>>
    /\ debugOutputEnabled
    /\ Len(oldnew) > 0

\* C18: a command line named notice, warning, error, group or endgroup, or
\* by any name that is not add-mask, debug, stop-commands or the stop token,
\* gives exactly one row, the redacted original line, and changes no parser
\* state.
C18_OtherCommandsPassThrough ==
    \A l \in CmdLines :
        (\/ l.name \in {"notice", "warning", "error", "group", "endgroup"}
         \/ /\ l.name \notin {"add-mask", "debug", "stop-commands"}
            /\ <<l.name>> # stopCommandEndToken)
            => Parse(l) = PlainRow(l)

\* a group line was emitted while the stop token is "group"
C18_Witness ==
    /\ parsed.name = "group" /\ parsed.ok
    /\ stopCommandEndToken = <<"group">>

(* ---------------------- claims about the steps' output ------------------- *)

\* the rows, by position in rowStep, that raw_output entries of step i gave
\* (steps are numbered from 0, positions from 1)
RowsOf(i) == {k \in 1..Len(rowStep) : rowStep[k] = i}

\* the positions of the range [LogIndex, LogIndex + LogLength) of step i
RangeOf(i) ==
    {k \in 1..Len(rowStep) :
        /\ state.steps[i + 1].logIndex < k
        /\ k <= state.steps[i + 1].logIndex + state.steps[i + 1].logLength}

StepNumbers == 0..(Len(state.steps) - 1)

\* C19: LogLength of a step is the number of raw_output entries fired for it
\* of which the parser made a row; each of them added one row, and an entry
\* the parser dropped added none.
C19_LogLengthCountsRows ==
    /\ Len(rawFired) = Len(state.steps)
    /\ \A i \in StepNumbers :
          /\ state.steps[i + 1].logLength = rawFired[i + 1]
          /\ Cardinality(RowsOf(i)) = rawFired[i + 1]
    /\ Len(rowStep) = TotalRows
    /\ \A k \in 1..Len(logRows) : logRows[k] # NoRow

\* a step has two rows of output, another has started and has none
C19_Witness ==
    \E i, j \in StepNumbers :
        /\ state.steps[i + 1].logLength = 2
        /\ state.steps[j + 1].logLength = 0
        /\ state.steps[j + 1].startedAt # NoTime
        /\ Len(logRows) = 2

\* C20 as stated: after any Fire calls, for steps i < j with output,
\* LogIndex(i) + LogLength(i) <= LogIndex(j), and the range of a step holds
\* that step's rows only.
C20_RangesInStepOrder ==
    \A i \in StepNumbers :
        state.steps[i + 1].logLength > 0
            => /\ \A j \in StepNumbers :
                     (i < j /\ state.steps[j + 1].logLength > 0)
                        => state.steps[i + 1].logIndex + state.steps[i + 1].logLength
                              <= state.steps[j + 1].logIndex
               /\ RangeOf(i) = RowsOf(i)

\* the rows of the steps were appended in the order of the steps
InStepOrder ==
    \A k, l \in 1..Len(rowStep) :
        (k < l /\ rowStep[k] # -1 /\ rowStep[l] # -1) => rowStep[k] <= rowStep[l]

\* C20, amended: when the steps' rows were appended in the order of the
\* steps, LogIndex(i) + LogLength(i) <= LogIndex(j) for steps i < j with
\* output, and a range that holds no row of another origin holds exactly the
\* step's rows.
C20_RangesWhenInStepOrder ==
    InStepOrder =>
        \A i \in StepNumbers :
            state.steps[i + 1].logLength > 0
                => /\ \A j \in StepNumbers :
                         (i < j /\ state.steps[j + 1].logLength > 0)
                            => state.steps[i + 1].logIndex + state.steps[i + 1].logLength
                                  <= state.steps[j + 1].logIndex
                   /\ (\A k \in RangeOf(i) : rowStep[k] # -1) => RangeOf(i) = RowsOf(i)

\* two steps have output, the earlier step's first
C20_Witness ==
    /\ InStepOrder
    /\ Len(state.steps) = 2
    /\ state.steps[1].logLength = 1 /\ state.steps[1].logIndex = 0
    /\ state.steps[2].logLength = 1 /\ state.steps[2].logIndex = 1

(* ----------------------- claims about the job's outputs ------------------ *)

\* C21: an output key only moves forward: a stored value is never replaced
\* by a later set (it can only become "sent"); a key the coordinator has
\* listed is sent and stays so, whatever SetOutputs is called with; and no
\* request made after the listing carries the key.
C21_OutputsMoveForward ==
    [][/\ \A k \in OutKeys :
             outputs[k] \in OutValues => outputs'[k] \in {outputs[k], "sent"}
       /\ \A k \in listed' : outputs'[k] = "sent"
       /\ (updReq'.inflight /\ ~updReq.inflight) => updReq'.keys \cap listed = {}]_vars

\* a key was acknowledged, and a later SetOutputs with another value for it
\* was ignored
C21_Witness ==
    \E k \in listed :
        /\ outputs[k] = "sent"
        /\ setOut = [pc |-> "idle", k |-> k, v |-> "v2"]
        /\ <<k, "v1">> \in sentVals
        /\ ~updReq.inflight

\* C22: an output whose key or whose value is too long is rejected: it is
\* not stored, it is in no request, and the rejection appends a log row.
C22_TooLongRejected ==
    [][/\ rejected' # rejected => Len(logRows') = Len(logRows) + 1
       /\ \A p \in rejected' : outputs'[p[1]] # p[2] /\ p \notin sentVals']_vars

(* ------------------- claims about the poll loop (continued) -------------- *)

C24_WorkerExitsOnlyOnCancel ==
    [][\A w \in Workers :
          /\ (wpc'[w] = "exited" /\ wpc[w] # "exited")
                => (pollingCtx /\ wpc[w] = "limiter")
          /\ (wpc[w] = "fetch" /\ wpc'[w] # "fetch") => wpc'[w] \in {"limiter", "load"}
          /\ (wpc[w] \in InRun \cup {"load"} /\ wpc'[w] \notin InRun \cup {"load"})
                => wpc'[w] = "limiter"]_vars

\* one worker is back at the limiter after Run refused its task, another
\* after a panic in run, and polling goes on
C24_Witness ==
    /\ ~pollingCtx
    /\ \E w, x \in Workers :
          /\ wpc[w] = "limiter" /\ runRet[w] = "dup"
          /\ wpc[x] = "limiter" /\ outcome[x] = "panic" /\ runRet[x] = "nil"

(* ---------------------- claims about the tasks version ------------------- *)

\* C25: when a response with a task has been processed, the tasks version
\* is 0, whatever the other workers did and whatever version came back.
C25_TaskResetsVersion ==
    [][\A w \in Workers :
          (fpc[w] = "task" /\ fpc'[w] = "idle") => tasksVersion' = 0]_vars

\* C26: the tasks version changes only upwards, to a version the
\* coordinator returned, or to 0 when a worker has got a task and the
\* counter holds that response's version; it is always 0 or a returned
\* version.
C26_VersionMonotone ==
    [][/\ tasksVersion' # tasksVersion
          => \/ tasksVersion' > tasksVersion /\ tasksVersion' \in returned'
             \/ /\ tasksVersion' = 0
                /\ \E w \in Workers :
                      /\ fpc[w] = "task" /\ fpc'[w] = "idle"
                      /\ fresp[w].version = tasksVersion
       /\ tasksVersion' \in {0} \cup returned']_vars

\* a worker's response with a lower version has been processed while the
\* counter holds the higher version another worker's response brought
C26_Witness ==
    /\ tasksVersion = 2
    /\ \E w \in Workers : fpc[w] = "task" /\ fresp[w].version = 1

\* the lowercase names of the results
LowerNames ==
    [success |-> <<"s", "u", "c", "c", "e", "s", "s">>,
     failure |-> <<"f", "a", "i", "l", "u", "r", "e">>,
     skipped |-> <<"s", "k", "i", "p", "p", "e", "d">>]

\* C28: for a task whose payload holds one job, generateWorkflow returns that
\* job's id and a workflow where the job's needs are exactly the keys of the
\* task's needs map, in lexicographic order, whatever the payload declared,
\* and where each key is a job without steps that carries the need's outputs
\* and the lowercase name of its result
C28_NeedsInjected ==
    (generated # NoWorkflow /\ runTask.payload.ok /\ Cardinality(runTask.payload.jobs) = 1) =>
      LET keys == DOMAIN runTask.needs
          needs == generated.jobs[generated.jobID].needs
      IN /\ generated.err = ""
         /\ generated.jobID \in runTask.payload.jobs
         /\ Len(needs) = Cardinality(keys)
         /\ {needs[i] : i \in 1..Len(needs)} = keys
         /\ \A i, j \in 1..Len(needs) : i < j => Less(needs[i], needs[j])
         /\ \A k \in keys :
              /\ k \in DOMAIN generated.jobs
              /\ ~generated.jobs[k].steps
              /\ generated.jobs[k].outputs = runTask.needs[k].outputs
              /\ generated.jobs[k].result = LowerNames[runTask.needs[k].result]

C28_Witness ==
    /\ generated.err = ""
    /\ runTask.payload.needs = <<"build">>
    /\ DOMAIN runTask.needs = {"job10", "job2"}
    /\ generated.jobs[generated.jobID].needs = <<"job10", "job2">>
    /\ generated.jobs["job2"].result = LowerNames["skipped"]

\* the payload is a workflow that does not hold exactly one job
NotOneJob == runTask.payload.ok /\ Cardinality(runTask.payload.jobs) # 1

\* what is claimed of a run whose payload does not hold exactly one job
FailsAsMultipleJobs ==
    /\ runAt \in {"start", "failed"}
    /\ pc["main"] # "steps"
    /\ state.steps = <<>>
    /\ closed => closeArg = "multiple jobs found"
    /\ pc["main"] = "log" => (state.result = "failure"
                              /\ logRows[Len(logRows)] = "multiple jobs found")

C30_OwnRuntimeToken ==
    \A w \in Workers : wpc[w] = "exec" => envs = GiteaRuntimeToken(wtask[w])

\* C29: ReportState calls the cancel hook when and only when the UpdateTask
\* response carries a state with result Cancelled; from then on the context
\* of the executor is done, and the executor returns and Run calls Close
C29_CancelledInvokesHook ==
    /\ [](hookCalls = cancelResps)
    /\ [](hookCalls > 0 => rctx)
    /\ (hookCalls > 0) ~> closed

C29_Witness == hookCalls = 1 /\ ~closed /\ pc["main"] \in {"run", "steps"}

(* ----------------------- claims, the last ten ---------------------------- *)

\* C31: once the result of the task is not Unspecified, a Fire call changes
\* nothing of the task state (no step's started-at, stopped-at, result, log
\* index or log length), and the rows change by the one row of Close only
C31_TerminalIgnoresFire ==
    [][state.result # "unspecified"
        => /\ state' = state
           /\ logRows' # logRows
                => (pc["main"] = "marked" /\ Len(logRows') = Len(logRows) + 1)]_vars

\* C32: a Fire call that sets the result of the task (an entry outside the
\* Main stage with a jobResult that parses) sets stopped-at and turns every
\* Unspecified step into Skipped for a skipped job and into Cancelled
\* otherwise, leaving the other steps; with Close this gives: whenever the
\* result of the task is not Unspecified, no step is Unspecified
C32_NoUnspecifiedStepWhenTerminal ==
    /\ [](state.result # "unspecified"
            => \A i \in 1..Len(state.steps) : state.steps[i].result # "unspecified")
    /\ [][(pc["main"] = "steps" /\ pc'["main"] = "steps" /\ state'.result # state.result)
            => /\ state'.stoppedAt # NoTime
               /\ Len(state'.steps) = Len(state.steps)
               /\ \A i \in 1..Len(state.steps) :
                    state'.steps[i] =
                      IF state.steps[i].result = "unspecified"
                      THEN [state.steps[i] EXCEPT
                              !.result = IF state'.result = "skipped" THEN "skipped"
                                         ELSE "cancelled"]
                      ELSE state.steps[i]]_vars

\* a skipped job: one step had ended with Success, another was forced to Skipped
C32_Witness ==
    /\ pc["main"] = "steps"
    /\ state.result = "skipped"
    /\ \E i, j \in 1..Len(state.steps) :
         state.steps[i].result = "skipped" /\ state.steps[j].result = "success"

\* C33: a RunDaemon tick that starts when Close has been called (r.closed is
\* set) or the context is done sends nothing and arms no timer: the heartbeat
\* stops there
C33_TickStopsOnceClosed ==
    [][(pc["daemon"] = "timer" /\ pc'["daemon"] # "timer" /\ (closed \/ rctx))
        => pc'["daemon"] = "stopped"]_vars

\* the caller has a request in flight
InFlight(c) == pc[c] \in {"logrpc", "staterpc"}

\* C34, as claimed: no two UpdateLog and no two UpdateTask calls are in flight
\* at once, and an UpdateLog and an UpdateTask are in flight together at some
\* time
C34_LogAndStateConcurrent ==
    /\ [](\A c1, c2 \in Callers : (pc[c1] = pc[c2] /\ InFlight(c1)) => c1 = c2)
    /\ <>(\E c1, c2 \in Callers : pc[c1] = "logrpc" /\ pc[c2] = "staterpc")

\* C34: ReportLog and ReportState exclude themselves and each other: the
\* heartbeat and Close never have two calls in flight, be it two UpdateLog,
\* two UpdateTask or one of each, and the request in flight is that of the
\* caller who holds clientM
C34_OneCallInFlight ==
    /\ \A c1, c2 \in Callers : (InFlight(c1) /\ InFlight(c2)) => c1 = c2
    /\ \A c \in Callers : InFlight(c) => clientM = c

\* the heartbeat's UpdateTask is in flight while Close is about to call
\* ReportLog
C34_Witness == pc["daemon"] = "staterpc" /\ pc["main"] = "log" /\ closed

\* C35: ReportState returns an error exactly when UpdateTask failed or, the
\* keys of SentOutputs stored as sent, an output is still pending; so when
\* Close has returned nil the buffer holds no row, every row appended has
\* been acknowledged, and no output is pending
C35_NilCloseMeansAllSent ==
    /\ [](closeRet = "nil"
            => (Len(logRows) = 0 /\ maxAck >= TotalRows /\ PendingKeys(outputs) = {}))
    /\ [][\A c \in Callers : (pc[c] = "staterpc" /\ pc'[c] # "staterpc")
            => /\ stateErr' = "nil" => PendingKeys(outputs') = {}
               /\ stateErr' = "pending" => PendingKeys(outputs') # {}
               /\ stateErr' = "rpc" => outputs' = outputs
               /\ stateErr' # "none"
               /\ c = "main" => (pc'[c] = "returned" <=> stateErr' = "nil")]_vars

\* Close returned nil at a later attempt, after its row was flushed and two
\* outputs were taken
C35_Witness ==
    /\ closeRet = "nil"
    /\ TotalRows = 1
    /\ attempts > 1
    /\ outputs["k1"] = "sent"
    /\ {"k1", "k2"} \subseteq listed

\* the entry names a step that exists
ExistingStep(e) == e.stepNumber >= 0 /\ Len(state.steps) > e.stepNumber

\* the entry is not raw output of an existing step: it is outside the Main
\* stage, or names no step that exists, or its raw_output is not true
NotStepOutput(e) == e.stage # "Main" \/ ~ExistingStep(e) \/ e.rawOutput # "true"

\* C36: an entry that is not raw output of an existing step, and of which the
\* parser makes a row, adds that row exactly when duringSteps is false at the
\* moment Fire tests it (for an entry outside the Main stage that is after
\* its jobResult was applied), and adds no row otherwise
C36_GeneralRowsOutsideSteps ==
    \A e \in OtherEntries \cup MainEntries :
        (e.row # NoRow /\ NotStepOutput(e)) =>
          \A r \in {FireResult(state, logRows, logOffset, e)} :
            /\ r.logRows \in {logRows, Append(logRows, e.row)}
            /\ r.logRows # logRows
                 <=> ~DuringSteps(IF e.stage # "Main" THEN r.state.steps ELSE state.steps)

\* cmdRegex on the content of an emitted row: the content is read as a
\* command line iff it still begins ::name:: ; otherwise it is plain text
LineOf(content) ==
    IF Len(content) >= 3 /\ content[1] = "::" /\ content[3] = "::"
                         /\ content[2] \in Commands
    THEN [kind |-> "cmd", name |-> content[2],
          value |-> SubSeq(content, 4, Len(content))]
    ELSE [kind |-> "text", name |-> "", value |-> content]

\* parseLogRow run again on the content of the row that p emitted, in the
\* parser state that p left
Reparse(p) == ParseLogRow(p.oldnew, p.token, debugOutputEnabled, LineOf(p.content))

\* C37: parsing the content of an emitted row again gives a row with the same
\* content and leaves the mask table and the stop token as they are
C37_ReparseIsNoOp ==
    \A l \in Lines : \A p \in {Parse(l)} :
        p.ok => \A q \in {Reparse(p)} :
                    /\ q.ok
                    /\ q.content = p.content
                    /\ q.oldnew = p.oldnew
                    /\ q.token = p.token

\* an UpdateLog request with the given no_more is on its way (clientM lets
\* one request be in flight at a time, so every request sent shows here)
LogInFlight(noMore) == rpc.kind = "log" /\ rpc.noMore = noMore

\* C38: once an UpdateLog request with no_more = true has been sent, no
\* UpdateLog request with no_more = false is sent any more
C38_NoMoreIsFinal == [](LogInFlight(TRUE) => []~LogInFlight(FALSE))

\* the row with absolute index i of a buffer that starts at offset off
AbsRow(rows, off, i) == rows[i - off + 1]

\* the absolute indices of the rows a buffer holds
Buffered(rows, off) == off..(off + Len(rows) - 1)

\* a step keeps the log stream in place: neither the offset nor the end of
\* the buffer moves back, and every row that was buffered and whose index is
\* not below the new offset is still buffered, at its index, with its content
KeepsRows ==
    /\ logOffset' >= logOffset
    /\ logOffset' + Len(logRows') >= logOffset + Len(logRows)
    /\ \A i \in Buffered(logRows, logOffset) :
         i >= logOffset' => /\ i \in Buffered(logRows', logOffset')
                            /\ AbsRow(logRows', logOffset', i) = AbsRow(logRows, logOffset, i)

\* a flush that succeeded left the offset at the ack of its response
FlushedToAck == logRet \in {"nil", "notall"} /\ lastAck # NoAck => logOffset = lastAck

\* C39: log_offset + len(buffered rows) is the number of rows appended so
\* far and never decreases; a flush leaves in the buffer exactly the rows
\* with absolute index >= ack; and a row keeps its absolute index and its
\* content as long as it is buffered, so that every request that contains
\* the index carries the same row
C39_RowsKeepTheirIndex ==
    /\ [](logOffset + Len(logRows) = Len(rowStep))
    /\ []FlushedToAck
    /\ [][KeepsRows]_vars

\* a flush was acknowledged in part while more rows had been appended: the
\* rest of the buffer stays
C39_Witness ==
    /\ logRet = "nil" /\ lastAck = logOffset
    /\ logOffset > 0 /\ Len(logRows) > 0
    /\ logOffset + Len(logRows) = Len(rowStep)

\* the workers that are inside Runner.Run: at the duplicate check or past it
Running == {w \in Workers : wpc[w] \in {"load"} \cup InRun}

\* a worker takes a new task only when it holds none and is at fetchTask
FetchesWhenFree ==
    \A w \in Workers :
        (wtask'[w] # wtask[w] /\ wtask'[w] # NoTask)
            => wtask[w] = NoTask /\ wpc[w] = "fetch" /\ w \notin Running

\* C40: at most Capacity tasks are being executed: the calls of Runner.Run
\* under way are those of the workers that hold a task, one per worker, the
\* running-task set holds only their tasks, and a worker fetches again only
\* when Run has returned for the task it had
C40_AtMostCapacityTasks ==
    /\ [](Cardinality(Running) <= Capacity)
    /\ [](\A w \in Workers : w \in Running <=> wtask[w] # NoTask)
    /\ [](runningTasks \subseteq {wtask[w] : w \in Running})
    /\ [][FetchesWhenFree]_vars

\* every worker is executing a task
C40_Witness ==
    /\ Cardinality({w \in Workers : wpc[w] \in Executing}) = Capacity
    /\ \A w \in Workers : wtask[w] # NoTask

====
